---------------------------- MODULE Spec2Model ----------------------------
(***************************************************************************)
(* A model of the three recipe scrapers of this repository:                *)
(*   om_*  omermiller-recipe-scraper.py                                    *)
(*   kc_*  ketochef-recipe-scraper.py                                      *)
(*   kd_*  keto-diet-recipe-scraper.py                                     *)
(* Strings are sequences of one-character strings, so that rstrip,         *)
(* startswith, "in" and unquote are computed character by character as the *)
(* Python code computes them.  A URL is the triple urlparse() yields that   *)
(* the code reads: netloc, path, query.                                    *)
(***************************************************************************)
EXTENDS Integers, Sequences, FiniteSets, TLC

VARIABLES
    url,            \* SpecClassify: the URL handed to the classifiers
    cls,            \* SpecClassify: the last classification, or NoResult
    prog,           \* Spec: the scraper that runs ("om", "kc" or "kd")
    pc,             \* Spec: where main() is
    web,            \* Spec: the site, page by page: the hrefs of each page fetched so far
    to_visit,       \* Spec: the crawl loop's stack of URLs
    start_url,      \* Spec: the URL the crawl starts from
    hrefs,          \* Spec: the hrefs the pages of the site may carry
    visited,        \* Spec: visited (omermiller) / seen (ketochef)
    recipes,        \* Spec: the recipe links collected so far
    listing_pages,  \* Spec: the listing pages still to read for recipe links
    recipe_links,   \* Spec: the recipe URLs still to fetch
    records,        \* Spec: the URLs of the Recipe records built so far
    written,        \* Spec: what write_csv received, or NotWritten
    crawlFetches,   \* Spec: fetch_html calls of the crawl loop, per URL
    runFetches,     \* Spec: fetch_html calls of the whole run, per URL
    failedFetches,  \* Spec: the fetch_html calls that raised, as <<phase, url>>
    html_text,      \* SpecParse: the page fed to RecipeContentParser, as its tokens
    rawdata,        \* SpecParse: the tokens of the page not handled yet
    title,          \* SpecParse: RecipeContentParser.title
    _in_h1,
    _heading_buffer,
    _capture_heading,
    _section,
    _section_stack,
    ingredients_raw,
    instructions_raw,
    script_blocks,  \* SpecRecipe: the application/ld+json blocks of the page
    recipe,         \* SpecRecipe: the Recipe record built from the page, or NoRecipe
    call,           \* SpecText: the function called and its arguments
    ret             \* SpecText: what the call returned, or NoReturn

classifyVars == <<url, cls>>
crawlVars == <<prog, pc, web, to_visit, start_url, hrefs, visited, recipes, listing_pages,
               recipe_links, records, written, crawlFetches, runFetches,
               failedFetches>>
parseVars == <<html_text, rawdata, title, _in_h1, _heading_buffer, _capture_heading, _section,
               _section_stack, ingredients_raw, instructions_raw>>
recipeVars == <<script_blocks, recipe>>
callVars == <<call, ret>>
vars == <<classifyVars, crawlVars, parseVars, recipeVars, callVars>>

(***************************************************************************)
(* Strings                                                                 *)
(***************************************************************************)
\* str.startswith(prefix)
StartsWith(s, p) ==
    /\ Len(p) <= Len(s)
    /\ SubSeq(s, 1, Len(p)) = p

\* "sub in s"
Contains(s, sub) ==
    \E i \in 0..(Len(s) - Len(sub)) : SubSeq(s, i + 1, i + Len(sub)) = sub

\* rstrip("/") left out
RStripSlash_kept(s) == s

\* str.rstrip("/")
RECURSIVE RStripSlash(_)
RStripSlash(s) ==
    IF s # <<>> /\ s[Len(s)] = "/"
    THEN RStripSlash(SubSeq(s, 1, Len(s) - 1))
    ELSE s

\* The percent escapes of the model's alphabet: %6D is "m", %25 is "%".
HexDecode(a, b) ==
    IF <<a, b>> = <<"6", "D">> THEN "m"
    ELSE IF <<a, b>> = <<"2", "5">> THEN "%"
    ELSE ""

\* urllib.parse.unquote: a string without "%" is returned as it is; otherwise
\* one pass, each %XY replaced by its character
RECURSIVE unquote(_)
unquote(s) ==
    IF \A i \in 1..Len(s) : s[i] # "%" THEN s
    ELSE IF Len(s) >= 3 /\ s[1] = "%" /\ HexDecode(s[2], s[3]) # ""
    THEN <<HexDecode(s[2], s[3])>> \o unquote(SubSeq(s, 4, Len(s)))
    ELSE <<s[1]>> \o unquote(Tail(s))

(***************************************************************************)
(* The words URLs are built from                                           *)
(***************************************************************************)
wRecipes  == <<"r","e","c","i","p","e","s">>
wRecipe   == <<"r","e","c","i","p","e">>
wPage     == <<"p","a","g","e">>
wTwo      == <<"2">>
wCategory == <<"c","a","t","e","g","o","r","y">>
wM        == <<"m">>
wMEnc     == <<"%","6","D">>
wMEnc2    == <<"%","2","5","6","D">>
wWp       == <<"w","p","-","x">>
wTag      == <<"t","a","g">>
wRecipeType == <<"r","e","c","i","p","e","_","t","y","p","e">>

qNone  == <<>>
qPage  == <<"p","a","g","e","=","2">>
qPaged == <<"p","a","g","e","d","=","2">>

\* "/" + "/".join(segs)
RECURSIVE JoinPath(_)
JoinPath(segs) ==
    IF segs = <<>> THEN <<>>
    ELSE <<"/">> \o Head(segs) \o JoinPath(Tail(segs))

\* netloc of BASE_URL; every scraper compares netlocs for equality only
BaseNetloc == "base"

URL(n, p, q) == [netloc |-> n, path |-> p, query |-> q]

\* urljoin(BASE_URL, link) for an absolute or root-relative link
urljoin(link) ==
    IF link.netloc = "" THEN [link EXCEPT !.netloc = BaseNetloc] ELSE link

\* unquote(absolute): applied to the whole URL string
unquote_url(u) == URL(u.netloc, unquote(u.path), unquote(u.query))

(***************************************************************************)
(* omermiller-recipe-scraper.py: the parametrised classifier               *)
(***************************************************************************)
is_same_domain(parsed) == parsed.netloc \in {"", BaseNetloc}

normalize_category_path(category_path) ==
    LET normalized == RStripSlash(unquote(category_path))
    IN  IF StartsWith(normalized, <<"/">>) THEN normalized
        ELSE <<"/">> \o normalized

is_category_root(path, category_path) ==
    RStripSlash(unquote(path)) = normalize_category_path(category_path)

is_pagination_link(parsed, category_path) ==
    LET normalized_category == normalize_category_path(category_path)
        normalized_path == RStripSlash(unquote(parsed.path))
    IN  IF parsed.query # <<>> /\ Contains(parsed.query, <<"p","a","g","e","d","=">>)
        THEN TRUE
        ELSE StartsWith(normalized_path, normalized_category \o <<"/">> \o wPage \o <<"/">>)

\* om_is_recipe_link without its is_pagination_link test
om_is_recipe_link_no_pagination(parsed, category_path) ==
    LET path == RStripSlash(unquote(parsed.path))
    IN  IF ~is_same_domain(parsed) THEN FALSE
        ELSE IF path = <<>> \/ path = <<"/">> THEN FALSE
        ELSE IF is_category_root(path, category_path) THEN FALSE
        ELSE IF StartsWith(path, <<"/">> \o wCategory \o <<"/">>)
                \/ StartsWith(path, <<"/">> \o wTag \o <<"/">>) THEN FALSE
        ELSE IF StartsWith(path, <<"/","w","p","-">>) THEN FALSE
        ELSE TRUE

\* om_is_recipe_link without its is_category_root test
om_is_recipe_link_no_root(parsed, category_path) ==
    LET path == RStripSlash(unquote(parsed.path))
    IN  IF ~is_same_domain(parsed) THEN FALSE
        ELSE IF path = <<>> \/ path = <<"/">> THEN FALSE
        ELSE IF is_pagination_link(parsed, category_path) THEN FALSE
        ELSE IF StartsWith(path, <<"/">> \o wCategory \o <<"/">>)
                \/ StartsWith(path, <<"/">> \o wTag \o <<"/">>) THEN FALSE
        ELSE IF StartsWith(path, <<"/","w","p","-">>) THEN FALSE
        ELSE TRUE

om_is_recipe_link(parsed, category_path) ==
    LET path == RStripSlash(unquote(parsed.path))
    IN  IF ~is_same_domain(parsed) THEN FALSE
        ELSE IF path = <<>> \/ path = <<"/">> THEN FALSE
        ELSE IF is_category_root(path, category_path) THEN FALSE
        ELSE IF is_pagination_link(parsed, category_path) THEN FALSE
        ELSE IF StartsWith(path, <<"/">> \o wCategory \o <<"/">>)
                \/ StartsWith(path, <<"/">> \o wTag \o <<"/">>) THEN FALSE
        ELSE IF StartsWith(path, <<"/","w","p","-">>) THEN FALSE
        ELSE TRUE

om_is_listing_page(parsed, category_path) ==
    IF ~is_same_domain(parsed) THEN FALSE
    ELSE is_pagination_link(parsed, category_path)

(***************************************************************************)
(* ketochef-recipe-scraper.py: the fixed-site classifier                   *)
(***************************************************************************)
kc_is_recipe_link(parsed) ==
    LET path == RStripSlash(parsed.path)
    IN  IF parsed.netloc # "" /\ parsed.netloc # BaseNetloc THEN FALSE
        ELSE IF path \in {<<"/">> \o wRecipes, <<"/">> \o wRecipes \o <<"/">> \o wPage}
        THEN FALSE
        ELSE IF StartsWith(path, <<"/">> \o wRecipes \o <<"/">> \o wPage \o <<"/">>)
        THEN FALSE
        ELSE StartsWith(path, <<"/">> \o wRecipes \o <<"/">>)

kc_is_listing_page(parsed) ==
    LET path == RStripSlash(parsed.path)
    IN  IF parsed.netloc # "" /\ parsed.netloc # BaseNetloc THEN FALSE
        ELSE IF path = <<"/">> \o wRecipes THEN TRUE
        ELSE IF StartsWith(path, <<"/">> \o wRecipes \o <<"/">> \o wPage \o <<"/">>)
        THEN TRUE
        ELSE /\ Contains(parsed.query, <<"p","a","g","e","=">>)
             /\ StartsWith(path, <<"/">> \o wRecipes)

(***************************************************************************)
(* keto-diet-recipe-scraper.py: the fixed-site classifier                  *)
(***************************************************************************)
kd_is_recipe_link(parsed) ==
    LET path == RStripSlash(parsed.path)
    IN  IF parsed.netloc # "" /\ parsed.netloc # BaseNetloc THEN FALSE
        ELSE IF path = <<"/">> \o wRecipes THEN FALSE
        ELSE IF StartsWith(path, <<"/">> \o wRecipeType) THEN FALSE
        ELSE \/ Contains(path, <<"/">> \o wRecipe)
             \/ Contains(path, <<"/">> \o wRecipes \o <<"/">>)

kd_is_listing_page(parsed) ==
    LET path == RStripSlash(parsed.path)
    IN  IF parsed.netloc # "" /\ parsed.netloc # BaseNetloc THEN FALSE
        ELSE IF path = <<"/">> \o wRecipes THEN TRUE
        ELSE /\ StartsWith(path, <<"/">> \o wRecipes)
             /\ \/ Contains(path, <<"/">> \o wPage \o <<"/">>)
                \/ Contains(parsed.query, <<"p","a","g","e","=">>)

(***************************************************************************)
(* Link extraction.  A page is the set of href values LinkParser collects  *)
(* from it: every caller puts the links into a set.                        *)
(***************************************************************************)
om_extract_recipe_links(links, category_path) ==
    {unquote_url(urljoin(link)) :
        link \in {l \in links : om_is_recipe_link(urljoin(l), category_path)}}

om_extract_listing_pages(links, category_path) ==
    {urljoin(link) :
        link \in {l \in links : om_is_listing_page(urljoin(l), category_path)}}

\* normalize_links(parser.links)
kc_extract_recipe_links(links) ==
    {urljoin(link) : link \in {l \in links : kc_is_recipe_link(urljoin(l))}}

kc_extract_listing_pages(links) ==
    {urljoin(link) : link \in {l \in links : kc_is_listing_page(urljoin(l))}}

kd_extract_recipe_links(links) ==
    {urljoin(link) : link \in {l \in links : kd_is_recipe_link(urljoin(l))}}

kd_extract_listing_pages(links) ==
    {urljoin(link) : link \in {l \in links : kd_is_listing_page(urljoin(l))}}

(***************************************************************************)
(* Sets, orders and counters the crawls use                                *)
(***************************************************************************)
Range(f) == {f[i] : i \in DOMAIN f}

\* The orders in which a "for x in <set>" loop may meet the elements of S
Perms(S) == {f \in [1..Cardinality(S) -> S] : Range(f) = S}

\* ord() of the characters URLs are written with
Ord(c) ==
    CASE c = "%" -> 37 [] c = "-" -> 45 [] c = "/" -> 47 [] c = "2" -> 50
      [] c = "5" -> 53 [] c = "6" -> 54 [] c = "=" -> 61 [] c = "?" -> 63
      [] c = "D" -> 68 [] c = "_" -> 95 [] c = "a" -> 97 [] c = "c" -> 99
      [] c = "d" -> 100 [] c = "e" -> 101 [] c = "g" -> 103 [] c = "i" -> 105
      [] c = "m" -> 109 [] c = "o" -> 111 [] c = "p" -> 112 [] c = "r" -> 114
      [] c = "s" -> 115 [] c = "t" -> 116 [] c = "w" -> 119 [] c = "x" -> 120
      [] c = "y" -> 121

\* a < b for Python strings
RECURSIVE StrLess(_, _)
StrLess(a, b) ==
    IF b = <<>> THEN FALSE
    ELSE IF a = <<>> THEN TRUE
    ELSE IF Head(a) # Head(b) THEN Ord(Head(a)) < Ord(Head(b))
    ELSE StrLess(Tail(a), Tail(b))

\* What follows the netloc in the URL string (every URL sorted is on BASE_URL)
PathAndQuery(u) ==
    u.path \o (IF u.query = <<>> THEN <<>> ELSE <<"?">> \o u.query)

\* sorted(S) for a set of URLs
sorted(S) ==
    CHOOSE f \in Perms(S) :
        \A i \in 1..(Len(f) - 1) : StrLess(PathAndQuery(f[i]), PathAndQuery(f[i + 1]))

Count(f, u) == IF u \in DOMAIN f THEN f[u] ELSE 0

\* The fetch counters stop counting here
CountCap == 2

Inc(f, u) ==
    [x \in DOMAIN f \cup {u} |->
        IF x = u /\ Count(f, x) < CountCap THEN Count(f, x) + 1 ELSE Count(f, x)]

\* "to_visit.pop()": the element it returns
Last(s) == s[Len(s)]

\* "to_visit.pop()": the list it leaves
Front(s) == SubSeq(s, 1, Len(s) - 1)

(***************************************************************************)
(* The sites: the constants of the three scrapers and the hrefs their      *)
(* pages may carry                                                         *)
(***************************************************************************)
\* The most links on one page
MaxLinks == 3

\* The most fetch_html calls that raise in one run
MaxFailures == 1

CATEGORY_URL == URL(BaseNetloc, <<"/">> \o wCategory \o <<"/">> \o wMEnc \o <<"/">>, qNone)

CATEGORY_PATH == unquote(CATEGORY_URL.path)

kc_RECIPES_URL == URL(BaseNetloc, <<"/">> \o wRecipes \o <<"/">>, qNone)

kd_RECIPES_URL == URL(BaseNetloc, <<"/">> \o wRecipes, qNone)

\* omermiller: two pagination links and four recipe links, one of them
\* root-relative, one percent-encoded
OmPage2 == URL(BaseNetloc, CATEGORY_URL.path \o wPage \o <<"/">> \o wTwo \o <<"/">>, qNone)
OmPaged == URL(BaseNetloc, CATEGORY_URL.path, qPaged)
OmHrefs ==
    { OmPage2, OmPaged,
      URL("", <<"/">> \o wTwo, qNone),
      URL(BaseNetloc, <<"/">> \o wMEnc, qNone),
      URL(BaseNetloc, <<"/">> \o wRecipe \o <<"/">> \o wTwo, qNone),
      URL(BaseNetloc, <<"/">> \o wRecipes \o <<"/">> \o wTwo, qNone) }

\* ketochef: the listing root, two pagination links and two recipe links
KcPage2 == URL(BaseNetloc, <<"/">> \o wRecipes \o <<"/">> \o wPage \o <<"/">> \o wTwo, qNone)
KcPageQ == URL("", <<"/">> \o wRecipes, qPage)
KcHrefs ==
    { kc_RECIPES_URL, KcPage2, KcPageQ,
      URL(BaseNetloc, <<"/">> \o wRecipes \o <<"/">> \o wTwo, qNone),
      URL("", <<"/">> \o wRecipes \o <<"/">> \o wM, qNone) }

\* keto-diet: two pagination links and two recipe links
KdHrefs ==
    { KcPage2, KcPageQ,
      URL(BaseNetloc, <<"/">> \o wRecipe \o <<"/">> \o wTwo, qNone),
      URL("", <<"/">> \o wRecipes \o <<"/">> \o wM, qNone) }

\* The sites of SpecCrawl: the pagination links, a link with a page query
\* and one recipe link
OmPagedRecipe == URL(BaseNetloc, <<"/">> \o wRecipe \o <<"/">> \o wTwo, qPaged)

OmPagination == {OmPage2, OmPaged, OmPagedRecipe, URL("", <<"/">> \o wTwo, qNone)}

KcPage2Q == URL(BaseNetloc, KcPage2.path, qPage)

KcPagination ==
    { kc_RECIPES_URL, KcPage2, KcPageQ, KcPage2Q,
      URL(BaseNetloc, <<"/">> \o wRecipes \o <<"/">> \o wTwo, qNone) }

\* The pages a fetch may return: the sets of at most MaxLinks hrefs
Pages == {links \in SUBSET hrefs : Cardinality(links) <= MaxLinks}

\* --start-url of the omermiller scraper
OmSeeds == {CATEGORY_URL, OmPage2}

NoWeb == [u \in {} |-> {}]

NoURL == URL("", <<>>, <<>>)

\* write_csv was not called (no list of URLs holds this entry)
NotWritten == <<URL("not written", <<>>, <<>>)>>

(***************************************************************************)
(* fetch_html: the call is counted, then it raises or returns the page.    *)
(* A page keeps its links for the whole run.                               *)
(***************************************************************************)
fetch_html_called(u, phase) ==
    /\ runFetches' = Inc(runFetches, u)
    /\ crawlFetches' = IF phase = "crawl" THEN Inc(crawlFetches, u) ELSE crawlFetches

fetch_html_returns(u, phase, links) ==
    /\ fetch_html_called(u, phase)
    /\ links \in (IF u \in DOMAIN web THEN {web[u]} ELSE Pages)
    /\ web' = (u :> links) @@ web
    /\ UNCHANGED failedFetches

\* The page of a recipe: no link of it is read
fetch_html_returns_recipe(u) ==
    /\ fetch_html_called(u, "recipes")
    /\ UNCHANGED <<web, failedFetches>>

fetch_html_raises(u, phase) ==
    /\ fetch_html_called(u, phase)
    /\ Cardinality(failedFetches) < MaxFailures
    /\ failedFetches' = failedFetches \cup {<<phase, u>>}
    /\ UNCHANGED web

(***************************************************************************)
(* The visited set of the two crawl loops                                  *)
(***************************************************************************)
\* is_visited with the test lost
is_visited_never(u, seen) == FALSE

\* "if current in visited" / "if url in seen"
is_visited(u, seen) == u \in seen

\* "visited.add(current)" / "seen.add(url)"
mark_visited(seen, u) == seen \cup {u}

\* unvisited with the test inverted
unvisited_inverted(order, seen) == SelectSeq(order, LAMBDA page : page \in seen)

\* "if page not in visited: to_visit.append(page)", for the pages in loop order
unvisited(order, seen) == SelectSeq(order, LAMBDA page : page \notin seen)

(***************************************************************************)
(* omermiller: collect_all_recipe_links and main                           *)
(***************************************************************************)
\* "if current in visited: continue"
OmSkip ==
    /\ prog = "om" /\ pc = "crawl" /\ to_visit # <<>>
    /\ is_visited(Last(to_visit), visited)
    /\ to_visit' = Front(to_visit)
    /\ UNCHANGED <<classifyVars, parseVars, recipeVars, callVars, prog, start_url, hrefs, pc, web, visited, recipes, listing_pages,
                   recipe_links, records, written, crawlFetches, runFetches,
                   failedFetches>>

\* One pass of the loop body with fetch_html returning
OmVisit ==
    /\ prog = "om" /\ pc = "crawl" /\ to_visit # <<>>
    /\ LET current == Last(to_visit) IN
        /\ ~is_visited(current, visited)
        /\ visited' = mark_visited(visited, current)
        /\ \E links \in Pages :
            /\ fetch_html_returns(current, "crawl", links)
            /\ recipes' = recipes \cup om_extract_recipe_links(links, CATEGORY_PATH)
            /\ \E order \in Perms(om_extract_listing_pages(links, CATEGORY_PATH)) :
                to_visit' = Front(to_visit) \o unvisited(order, visited')
    /\ UNCHANGED <<classifyVars, parseVars, recipeVars, callVars, prog, start_url, hrefs, pc, listing_pages, recipe_links, records,
                   written>>

\* fetch_html raises: nothing catches it, main ends with the exception
OmRaise ==
    /\ prog = "om" /\ pc = "crawl" /\ to_visit # <<>>
    /\ LET current == Last(to_visit) IN
        /\ ~is_visited(current, visited)
        /\ visited' = mark_visited(visited, current)
        /\ fetch_html_raises(current, "crawl")
        /\ to_visit' = Front(to_visit)
    /\ pc' = "aborted"
    /\ UNCHANGED <<classifyVars, parseVars, recipeVars, callVars, prog, start_url, hrefs, recipes, listing_pages, recipe_links,
                   records, written>>

\* "return recipes", then main's write_csv(urls, ...)
OmReturn ==
    /\ prog = "om" /\ pc = "crawl" /\ to_visit = <<>>
    /\ written' = sorted(recipes)
    /\ pc' = "done"
    /\ UNCHANGED <<classifyVars, parseVars, recipeVars, callVars, prog, start_url, hrefs, web, to_visit, visited, recipes,
                   listing_pages, recipe_links, records, crawlFetches, runFetches,
                   failedFetches>>

(***************************************************************************)
(* ketochef: collect_listing_pages, collect_recipe_links, fetch_recipe and *)
(* main                                                                    *)
(***************************************************************************)
KcSkip ==
    /\ prog = "kc" /\ pc = "crawl" /\ to_visit # <<>>
    /\ is_visited(Last(to_visit), visited)
    /\ to_visit' = Front(to_visit)
    /\ UNCHANGED <<classifyVars, parseVars, recipeVars, callVars, prog, start_url, hrefs, pc, web, visited, recipes, listing_pages,
                   recipe_links, records, written, crawlFetches, runFetches,
                   failedFetches>>

KcVisit ==
    /\ prog = "kc" /\ pc = "crawl" /\ to_visit # <<>>
    /\ LET u == Last(to_visit) IN
        /\ ~is_visited(u, visited)
        /\ visited' = mark_visited(visited, u)
        /\ \/ \E links \in Pages :
                /\ fetch_html_returns(u, "crawl", links)
                /\ \E order \in Perms(kc_extract_listing_pages(links)) :
                    to_visit' = Front(to_visit) \o unvisited(order, visited')
           \/ /\ fetch_html_raises(u, "crawl")
              /\ to_visit' = Front(to_visit)
    /\ UNCHANGED <<classifyVars, parseVars, recipeVars, callVars, prog, start_url, hrefs, pc, recipes, listing_pages, recipe_links,
                   records, written>>

\* collect_listing_pages returning while the frontier still holds pages
KcCrawlReturn_early ==
    /\ prog = "kc" /\ pc = "crawl"
    /\ listing_pages' = sorted(visited)
    /\ pc' = "links"
    /\ UNCHANGED <<classifyVars, parseVars, recipeVars, callVars, prog, start_url, hrefs, web, to_visit, visited, recipes,
                   recipe_links, records, written, crawlFetches, runFetches,
                   failedFetches>>

\* "return sorted(seen)"; main hands it to collect_recipe_links
KcCrawlReturn ==
    /\ prog = "kc" /\ pc = "crawl" /\ to_visit = <<>>
    /\ listing_pages' = sorted(visited)
    /\ pc' = "links"
    /\ UNCHANGED <<classifyVars, parseVars, recipeVars, callVars, prog, start_url, hrefs, web, to_visit, visited, recipes,
                   recipe_links, records, written, crawlFetches, runFetches,
                   failedFetches>>

\* One pass of collect_recipe_links' loop
KcLinks ==
    /\ prog = "kc" /\ pc = "links" /\ listing_pages # <<>>
    /\ LET page == Head(listing_pages) IN
        \/ \E links \in Pages :
            /\ fetch_html_returns(page, "links", links)
            /\ recipes' = recipes \cup kc_extract_recipe_links(links)
        \/ /\ fetch_html_raises(page, "links")
           /\ UNCHANGED recipes
    /\ listing_pages' = Tail(listing_pages)
    /\ UNCHANGED <<classifyVars, parseVars, recipeVars, callVars, prog, start_url, hrefs, pc, to_visit, visited, recipe_links,
                   records, written>>

\* "return sorted(links)"
KcLinksReturn ==
    /\ prog = "kc" /\ pc = "links" /\ listing_pages = <<>>
    /\ recipe_links' = sorted(recipes)
    /\ pc' = "recipes"
    /\ UNCHANGED <<classifyVars, parseVars, recipeVars, callVars, prog, start_url, hrefs, web, to_visit, visited, recipes,
                   listing_pages, records, written, crawlFetches, runFetches,
                   failedFetches>>

\* One element of "[fetch_recipe(url) for url in recipe_links]"
KcFetchRecipe ==
    /\ prog = "kc" /\ pc = "recipes" /\ recipe_links # <<>>
    /\ fetch_html_returns_recipe(Head(recipe_links))
    /\ records' = Append(records, Head(recipe_links))
    /\ recipe_links' = Tail(recipe_links)
    /\ UNCHANGED <<classifyVars, parseVars, recipeVars, callVars, prog, start_url, hrefs, pc, to_visit, visited, recipes,
                   listing_pages, written>>

\* fetch_recipe lets fetch_html's exception through: main ends without write_csv
KcFetchRecipeRaise ==
    /\ prog = "kc" /\ pc = "recipes" /\ recipe_links # <<>>
    /\ fetch_html_raises(Head(recipe_links), "recipes")
    /\ pc' = "aborted"
    /\ UNCHANGED <<classifyVars, parseVars, recipeVars, callVars, prog, start_url, hrefs, to_visit, visited, recipes, listing_pages,
                   recipe_links, records, written>>

KcWrite ==
    /\ prog = "kc" /\ pc = "recipes" /\ recipe_links = <<>>
    /\ written' = records
    /\ pc' = "done"
    /\ UNCHANGED <<classifyVars, parseVars, recipeVars, callVars, prog, start_url, hrefs, web, to_visit, visited, recipes,
                   listing_pages, recipe_links, records, crawlFetches, runFetches,
                   failedFetches>>

(***************************************************************************)
(* keto-diet: main                                                         *)
(***************************************************************************)
\* Step 1: "listing_html = fetch_html(RECIPES_URL)", outside any try
KdStart ==
    /\ prog = "kd" /\ pc = "start"
    /\ \/ \E links \in Pages :
            /\ fetch_html_returns(kd_RECIPES_URL, "start", links)
            /\ listing_pages' = sorted(kd_extract_listing_pages(links) \cup {kd_RECIPES_URL})
            /\ pc' = "links"
       \/ /\ fetch_html_raises(kd_RECIPES_URL, "start")
          /\ pc' = "aborted"
          /\ UNCHANGED listing_pages
    /\ UNCHANGED <<classifyVars, parseVars, recipeVars, callVars, prog, start_url, hrefs, to_visit, visited, recipes, recipe_links,
                   records, written>>

\* Step 3: one pass of "for page_url in sorted(listing_pages)"
KdLinks ==
    /\ prog = "kd" /\ pc = "links" /\ listing_pages # <<>>
    /\ LET page_url == Head(listing_pages) IN
        \/ /\ page_url = kd_RECIPES_URL
           /\ recipes' = recipes \cup kd_extract_recipe_links(web[kd_RECIPES_URL])
           /\ UNCHANGED <<web, crawlFetches, runFetches, failedFetches>>
        \/ /\ page_url # kd_RECIPES_URL
           /\ \E links \in Pages :
                /\ fetch_html_returns(page_url, "links", links)
                /\ recipes' = recipes \cup kd_extract_recipe_links(links)
        \/ /\ page_url # kd_RECIPES_URL
           /\ fetch_html_raises(page_url, "links")
           /\ UNCHANGED recipes
    /\ listing_pages' = Tail(listing_pages)
    /\ UNCHANGED <<classifyVars, parseVars, recipeVars, callVars, prog, start_url, hrefs, pc, to_visit, visited, recipe_links,
                   records, written>>

\* "for link in recipe_links" meets the set in some order
KdLinksDone ==
    /\ prog = "kd" /\ pc = "links" /\ listing_pages = <<>>
    /\ recipe_links' \in Perms(recipes)
    /\ pc' = "recipes"
    /\ UNCHANGED <<classifyVars, parseVars, recipeVars, callVars, prog, start_url, hrefs, web, to_visit, visited, recipes,
                   listing_pages, records, written, crawlFetches, runFetches,
                   failedFetches>>

\* Steps 4 and 5: one pass of the recipe loop
KdFetchRecipe ==
    /\ prog = "kd" /\ pc = "recipes" /\ recipe_links # <<>>
    /\ \/ /\ fetch_html_returns_recipe(Head(recipe_links))
          /\ records' = Append(records, Head(recipe_links))
       \/ /\ fetch_html_raises(Head(recipe_links), "recipes")
          /\ UNCHANGED records
    /\ recipe_links' = Tail(recipe_links)
    /\ UNCHANGED <<classifyVars, parseVars, recipeVars, callVars, prog, start_url, hrefs, pc, to_visit, visited, recipes,
                   listing_pages, written>>

KdWrite ==
    /\ prog = "kd" /\ pc = "recipes" /\ recipe_links = <<>>
    /\ written' = records
    /\ pc' = "done"
    /\ UNCHANGED <<classifyVars, parseVars, recipeVars, callVars, prog, start_url, hrefs, web, to_visit, visited, recipes,
                   listing_pages, recipe_links, records, crawlFetches, runFetches,
                   failedFetches>>

(***************************************************************************)
(* Spec: one run of one scraper                                            *)
(***************************************************************************)
CrawlStart(p, at, seed, site, stack) ==
    /\ prog = p
    /\ pc = at
    /\ web = NoWeb
    /\ start_url = seed
    /\ hrefs = site
    /\ to_visit = stack
    /\ visited = {}
    /\ recipes = {}
    /\ listing_pages = <<>>
    /\ recipe_links = <<>>
    /\ records = <<>>
    /\ written = NotWritten
    /\ crawlFetches = NoWeb
    /\ runFetches = NoWeb
    /\ failedFetches = {}

CrawlIdle == CrawlStart("none", "idle", NoURL, {}, <<>>)

\* Python's None
None == "None"

\* RecipeContentParser.__init__, and the page it is fed; a title of None is
\* the empty text, as "not self.title" reads it
RecipeContentParser(document) ==
    /\ html_text = document
    /\ rawdata = document
    /\ title = <<>>
    /\ _in_h1 = FALSE
    /\ _heading_buffer = <<>>
    /\ _capture_heading = FALSE
    /\ _section = None
    /\ _section_stack = <<>>
    /\ ingredients_raw = <<>>
    /\ instructions_raw = <<>>

\* No Recipe record is built
NoRecipe == [built |-> FALSE, url |-> <<>>, name |-> <<>>, ingredients |-> <<>>,
             instructions |-> <<>>]

\* Nothing is called
NoCall == [fn |-> "none"]

NoReturn == [done |-> FALSE, value |-> <<>>]

CallIdle == call = NoCall /\ ret = NoReturn

\* No page is parsed and no record built
RecipeIdle ==
    /\ RecipeContentParser(<<>>)
    /\ script_blocks = <<>>
    /\ recipe = NoRecipe

ParseIdle == RecipeIdle /\ CallIdle

Init ==
    /\ url = NoURL
    /\ cls = [scraper |-> "none", category_path |-> <<>>, recipe |-> FALSE,
              listing |-> FALSE, recipes |-> {}, pages |-> {}]
    /\ \/ \E seed \in OmSeeds : CrawlStart("om", "crawl", seed, OmHrefs, <<seed>>)
       \/ CrawlStart("kc", "crawl", kc_RECIPES_URL, KcHrefs, <<kc_RECIPES_URL>>)
       \/ CrawlStart("kd", "start", kd_RECIPES_URL, KdHrefs, <<>>)
    /\ ParseIdle

Next ==
    \/ OmSkip \/ OmVisit \/ OmRaise \/ OmReturn
    \/ KcSkip \/ KcVisit \/ KcCrawlReturn \/ KcLinks \/ KcLinksReturn
    \/ KcFetchRecipe \/ KcFetchRecipeRaise \/ KcWrite
    \/ KdStart \/ KdLinks \/ KdLinksDone \/ KdFetchRecipe \/ KdWrite

Spec == Init /\ [][Next]_vars

(***************************************************************************)
(* SpecCrawl: the listing crawls alone (collect_all_recipe_links up to     *)
(* main's write_csv, collect_listing_pages up to its return).  The         *)
(* scrapers are sequential programs: a loop goes on while it has a step.   *)
(***************************************************************************)
CrawlInit ==
    /\ url = NoURL
    /\ cls = [scraper |-> "none", category_path |-> <<>>, recipe |-> FALSE,
              listing |-> FALSE, recipes |-> {}, pages |-> {}]
    /\ \/ \E seed \in OmSeeds : CrawlStart("om", "crawl", seed, OmPagination, <<seed>>)
       \/ CrawlStart("kc", "crawl", kc_RECIPES_URL, KcPagination, <<kc_RECIPES_URL>>)
    /\ ParseIdle

CrawlNext ==
    \/ OmSkip \/ OmVisit \/ OmRaise \/ OmReturn
    \/ KcSkip \/ KcVisit \/ KcCrawlReturn

SpecCrawl == CrawlInit /\ [][CrawlNext]_vars /\ WF_vars(CrawlNext)

(***************************************************************************)
(* SpecClassify: the classifiers applied to every URL of a bounded set     *)
(***************************************************************************)
\* The longest path, in segments
MaxSegs == 3

Words == {wRecipes, wRecipe, wPage, wTwo, wCategory, wM, wMEnc, wMEnc2, wWp}

SegSeqs == UNION {[1..n -> Words] : n \in 0..MaxSegs}

Paths == {JoinPath(s) \o t : s \in SegSeqs, t \in {<<>>, <<"/">>}}

Queries == {qNone, qPage, qPaged}

Netlocs == {"", BaseNetloc, "other"}

ClassifyURLs == {URL(n, p, q) : n \in Netlocs, p \in Paths, q \in Queries}

\* category_path arguments: the test's, the site's (decoded, as CATEGORY_PATH
\* is), and a raw spelling normalize_category_path has to normalise
CategoryPaths ==
    { <<"/">> \o wRecipes,
      <<"/">> \o wCategory \o <<"/">> \o wM,
      wCategory \o <<"/">> \o wMEnc \o <<"/">>,
      <<"/">> \o wM }

\* recipes and pages: what extract_recipe_links and extract_listing_pages return
\* for a page whose only link is url
NoResult == [scraper |-> "none", category_path |-> <<>>,
             recipe |-> FALSE, listing |-> FALSE, recipes |-> {}, pages |-> {}]

ClassifyInit ==
    /\ url \in ClassifyURLs
    /\ cls = NoResult
    /\ CrawlIdle
    /\ ParseIdle

ClassifyOmer ==
    /\ cls = NoResult
    /\ \E cp \in CategoryPaths :
        cls' = [scraper |-> "omermiller", category_path |-> cp,
                recipe |-> om_is_recipe_link(url, cp),
                listing |-> om_is_listing_page(url, cp),
                recipes |-> om_extract_recipe_links({url}, cp),
                pages |-> om_extract_listing_pages({url}, cp)]
    /\ UNCHANGED <<url, crawlVars, parseVars, recipeVars, callVars>>

ClassifyKetochef ==
    /\ cls = NoResult
    /\ cls' = [scraper |-> "ketochef", category_path |-> <<>>,
               recipe |-> kc_is_recipe_link(url),
               listing |-> kc_is_listing_page(url),
               recipes |-> kc_extract_recipe_links({url}),
               pages |-> kc_extract_listing_pages({url})]
    /\ UNCHANGED <<url, crawlVars, parseVars, recipeVars, callVars>>

ClassifyKetoDiet ==
    /\ cls = NoResult
    /\ cls' = [scraper |-> "keto-diet", category_path |-> <<>>,
               recipe |-> kd_is_recipe_link(url),
               listing |-> kd_is_listing_page(url),
               recipes |-> kd_extract_recipe_links({url}),
               pages |-> kd_extract_listing_pages({url})]
    /\ UNCHANGED <<url, crawlVars, parseVars, recipeVars, callVars>>

ClassifyNext == ClassifyOmer \/ ClassifyKetochef \/ ClassifyKetoDiet

SpecClassify == ClassifyInit /\ [][ClassifyNext]_vars

(***************************************************************************)
(* ketochef: RecipeContentParser.  A page is the sequence of tokens        *)
(* HTMLParser.feed hands to the three handlers; a text is a sequence of    *)
(* characters, a class attribute the set of its tokens.                    *)
(***************************************************************************)
wIngredients  == <<"i","n","g","r","e","d","i","e","n","t","s">>
wInstructions == <<"i","n","s","t","r","u","c","t","i","o","n","s">>
wDirections   == <<"d","i","r","e","c","t","i","o","n","s">>
wMethod       == <<"m","e","t","h","o","d">>

\* The ASCII keywords: the texts of the model are ASCII, and no Hebrew
\* keyword is in an ASCII text.
INGREDIENT_KEYWORDS == {wIngredients}

INSTRUCTION_KEYWORDS == {wInstructions, wDirections, wMethod}

\* The class tokens handle_starttag looks for
IngredientClasses ==
    { wIngredients, SubSeq(wIngredients, 1, 10), wRecipe \o <<"-">> \o wIngredients }

InstructionClasses ==
    { wInstructions, SubSeq(wInstructions, 1, 11), wDirections, wMethod }

IsSpace(c) == c \in {" ", "\n", "\t"}

\* str.lower(), over the capitals of the model's texts
lower(s) ==
    [i \in 1..Len(s) |->
        CASE s[i] = "I" -> "i" [] s[i] = "M" -> "m" [] s[i] = "N" -> "n"
          [] s[i] = "R" -> "r" [] s[i] = "A" -> "a" [] s[i] = "T" -> "t"
          [] OTHER -> s[i]]

RECURSIVE lstrip(_)
lstrip(s) == IF s # <<>> /\ IsSpace(Head(s)) THEN lstrip(Tail(s)) ELSE s

\* The word s starts with: its characters up to the first whitespace
RECURSIVE FirstWord(_)
FirstWord(s) ==
    IF s = <<>> \/ IsSpace(Head(s)) THEN <<>> ELSE <<Head(s)>> \o FirstWord(Tail(s))

\* " ".join(s.split())
RECURSIVE split_join(_)
split_join(s) ==
    LET t == lstrip(s)
        w == FirstWord(t)
        rest == split_join(SubSeq(t, Len(w) + 1, Len(t)))
    IN  IF t = <<>> THEN <<>>
        ELSE IF rest = <<>> THEN w ELSE w \o <<" ">> \o rest

\* " ".join(buffer)
RECURSIVE join(_)
join(buffer) ==
    IF buffer = <<>> THEN <<>>
    ELSE IF Len(buffer) = 1 THEN Head(buffer)
    ELSE Head(buffer) \o <<" ">> \o join(Tail(buffer))

\* re.sub(r"[:\s]+", " ", text).strip().lower()
normalize_heading(text) ==
    lower(split_join([i \in 1..Len(text) |-> IF text[i] = ":" THEN " " ELSE text[i]]))

classify_heading(text) ==
    LET normalized == normalize_heading(text)
    IN  IF \E keyword \in INGREDIENT_KEYWORDS : Contains(normalized, keyword)
        THEN "ingredients"
        ELSE IF \E keyword \in INSTRUCTION_KEYWORDS : Contains(normalized, keyword)
        THEN "instructions"
        ELSE None

\* The tokens of a page
StartTag(tag, class) == [type |-> "start", tag |-> tag, class |-> class, data |-> <<>>]

EndTag(tag) == [type |-> "end", tag |-> tag, class |-> {}, data |-> <<>>]

Data(data) == [type |-> "data", tag |-> "", class |-> {}, data |-> data]

handle_starttag ==
    /\ prog # "kd"
    /\ rawdata # <<>> /\ Head(rawdata).type = "start"
    /\ LET tag == Head(rawdata).tag
           class_tokens == {lower(token) : token \in Head(rawdata).class}
           heading == tag \in {"h2", "h3", "h4"}
       IN  /\ _in_h1' = IF tag = "h1" THEN TRUE ELSE _in_h1
           /\ _heading_buffer' = IF heading THEN <<>> ELSE _heading_buffer
           /\ _capture_heading' = IF heading THEN TRUE ELSE _capture_heading
           /\ _section_stack' =
                Append(_section_stack,
                       IF class_tokens \cap IngredientClasses # {} THEN "ingredients"
                       ELSE IF class_tokens \cap InstructionClasses # {} THEN "instructions"
                       ELSE "")
    /\ rawdata' = Tail(rawdata)
    /\ UNCHANGED <<classifyVars, crawlVars, recipeVars, callVars, html_text, title, _section, ingredients_raw,
                   instructions_raw>>

handle_endtag ==
    /\ prog # "kd"
    /\ rawdata # <<>> /\ Head(rawdata).type = "end"
    /\ LET tag == Head(rawdata).tag
           heading_text == split_join(join(_heading_buffer))
       IN  /\ _in_h1' = IF tag = "h1" THEN FALSE ELSE _in_h1
           /\ IF tag \in {"h2", "h3", "h4"} /\ _capture_heading
              THEN /\ _section' = classify_heading(heading_text)
                   /\ _capture_heading' = FALSE
                   /\ _heading_buffer' = <<>>
              ELSE UNCHANGED <<_section, _capture_heading, _heading_buffer>>
           /\ _section_stack' =
                IF _section_stack # <<>> THEN Front(_section_stack) ELSE _section_stack
    /\ rawdata' = Tail(rawdata)
    /\ UNCHANGED <<classifyVars, crawlVars, recipeVars, callVars, html_text, title, ingredients_raw,
                   instructions_raw>>

handle_data ==
    /\ prog # "kd"
    /\ rawdata # <<>> /\ Head(rawdata).type = "data"
    /\ LET text == split_join(Head(rawdata).data)
           active_section ==
               IF _section_stack # <<>> /\ Last(_section_stack) # ""
               THEN Last(_section_stack)
               ELSE _section
       IN  IF text = <<>>
           THEN UNCHANGED <<title, _heading_buffer, ingredients_raw, instructions_raw>>
           ELSE /\ title' = IF _in_h1 /\ title = <<>> THEN text ELSE title
                /\ IF _capture_heading
                   THEN /\ _heading_buffer' = Append(_heading_buffer, text)
                        /\ UNCHANGED <<ingredients_raw, instructions_raw>>
                   ELSE /\ ingredients_raw' =
                            IF active_section = "ingredients"
                            THEN Append(ingredients_raw, text) ELSE ingredients_raw
                        /\ instructions_raw' =
                            IF active_section = "instructions"
                            THEN Append(instructions_raw, text) ELSE instructions_raw
                        /\ UNCHANGED _heading_buffer
    /\ rawdata' = Tail(rawdata)
    /\ UNCHANGED <<classifyVars, crawlVars, recipeVars, callVars, html_text, _in_h1, _capture_heading, _section,
                   _section_stack>>

(***************************************************************************)
(* SpecParse: RecipeContentParser over the pages of a small family         *)
(***************************************************************************)
MaxItems == 3

\* "<li>text</li>" for each text
RECURSIVE ListItems(_)
ListItems(texts) ==
    IF texts = <<>> THEN <<>>
    ELSE <<StartTag("li", {}), Data(Head(texts)), EndTag("li")>> \o ListItems(Tail(texts))

\* "<ul>...</ul>"
List(texts) == <<StartTag("ul", {})>> \o ListItems(texts) \o <<EndTag("ul")>>

\* "<h1>h1</h1>", or nothing
Heading1(h1) ==
    IF h1 = <<>> THEN <<>> ELSE <<StartTag("h1", {}), Data(h1), EndTag("h1")>>

\* A sub-heading and its list in one div, then a sibling div with another list
DepthScopingPage(h1, heading, items, class, unrelated) ==
    Heading1(h1)
    \o <<StartTag("div", {}), StartTag("h3", {}), Data(heading), EndTag("h3"),
         Data(<<"\n", " ">>)>>
    \o List(items) \o <<EndTag("div")>>
    \o <<StartTag("div", class)>> \o List(unrelated) \o <<EndTag("div")>>

\* A div with a class hint: text, an element (a void "<br>" or a "<p>"), text
ClassHintPage(h1, class, void, texts) ==
    Heading1(h1)
    \o <<StartTag("div", class), Data(texts[1])>>
    \o (IF void THEN <<StartTag("br", {}), Data(texts[2])>>
        ELSE <<StartTag("p", {}), Data(texts[2]), EndTag("p")>>)
    \o <<Data(texts[3]), EndTag("div")>>

\* The texts of the list under the heading: " a ", " aa ", ...
Items == [i \in 1..MaxItems |-> <<" ">> \o [j \in 1..i |-> "a"] \o <<" ">>]

Unrelated == << <<"x">>, <<"y">> >>

Titles == { <<>>, <<"T">> }

Headings ==
    { <<"I">> \o Tail(wIngredients) \o <<":">>,
      <<"M">> \o Tail(wMethod),
      <<"N","o","t","e","s">> }

Classes == { {}, {<<"I">> \o Tail(wIngredients)}, {wMethod, <<"x">>} }

\* A "<script>" or "<style>" element in the level-1 heading, and one in a div
\* with a class hint after a sub-heading and a list item
ScriptPage(h1, heading, class, tag) ==
    <<StartTag("h1", {}), StartTag(tag, {}), Data(<<"v">>), EndTag(tag), Data(h1),
      EndTag("h1")>>
    \o <<StartTag("h3", {}), Data(heading), EndTag("h3")>>
    \o <<StartTag("div", class)>> \o ListItems(<<Items[1]>>)
    \o <<StartTag(tag, {}), Data(<<"v", " ", "w">>), EndTag(tag), EndTag("div")>>

Documents ==
    { DepthScopingPage(h1, heading, Items, class, Unrelated) :
        h1 \in Titles, heading \in Headings, class \in Classes }
    \cup { ClassHintPage(h1, class, void, Items) :
            h1 \in Titles, class \in Classes, void \in BOOLEAN }
    \cup { ScriptPage(h1, heading, class, tag) :
            h1 \in Titles, heading \in Headings, class \in Classes,
            tag \in {"script", "style"} }

(***************************************************************************)
(* ketochef: the text functions of the merge                               *)
(***************************************************************************)
wAmp == <<"a","m","p">>

\* html.unescape, over the character references of the model's texts: "&amp;"
\* and, as HTML5 allows it, "&amp" without the semicolon.  One pass, left to
\* right: what a reference is replaced by is not read again.
RECURSIVE unescape(_)
unescape(s) ==
    IF s = <<>> THEN <<>>
    ELSE IF StartsWith(s, <<"&">> \o wAmp \o <<";">>)
    THEN <<"&">> \o unescape(SubSeq(s, 6, Len(s)))
    ELSE IF StartsWith(s, <<"&">> \o wAmp)
    THEN <<"&">> \o unescape(SubSeq(s, 5, Len(s)))
    ELSE <<Head(s)>> \o unescape(Tail(s))

\* re.sub(r"\s+", " ", html.unescape(text)).strip()
cleanup_text(text) == split_join(unescape(text))

is_heading_text(text) ==
    LET normalized == normalize_heading(text)
    IN  \E keyword \in INGREDIENT_KEYWORDS \cup INSTRUCTION_KEYWORDS :
            Contains(normalized, keyword)

\* merge_entries with the "not in merged" test lost
RECURSIVE merge_entries_no_dedupe(_, _)
merge_entries_no_dedupe(entries, merged) ==
    IF entries = <<>> THEN merged
    ELSE LET cleaned == cleanup_text(Head(entries))
         IN  merge_entries_no_dedupe(Tail(entries),
                 IF cleaned = <<>> THEN merged
                 ELSE IF is_heading_text(cleaned) THEN merged
                 ELSE Append(merged, cleaned))

\* The loop of merge_section_data over the entries left, with merged so far
RECURSIVE merge_entries(_, _)
merge_entries(entries, merged) ==
    IF entries = <<>> THEN merged
    ELSE LET cleaned == cleanup_text(Head(entries))
         IN  merge_entries(Tail(entries),
                 IF cleaned = <<>> THEN merged
                 ELSE IF is_heading_text(cleaned) THEN merged
                 ELSE IF cleaned \notin Range(merged) THEN Append(merged, cleaned)
                 ELSE merged)

merge_section_data(raw, json_ld) == merge_entries(raw \o json_ld, <<>>)

(***************************************************************************)
(* The values json.loads returns: None, str, list, dict, and the rest      *)
(* (numbers, booleans).  A dict is a function from its keys to its values. *)
(***************************************************************************)
JNull == [null |-> TRUE]

JNum == [num |-> TRUE]

JStr(s) == [str |-> s]

JList(l) == [list |-> l]

JDict(f) == [dict |-> f]

IsNull(value) == "null" \in DOMAIN value

IsStr(value) == "str" \in DOMAIN value

IsList(value) == "list" \in DOMAIN value

IsDict(value) == "dict" \in DOMAIN value

\* "key in d"
Has(d, key) == key \in DOMAIN d.dict

\* d.get(key)
Get(d, key) == IF Has(d, key) THEN d.dict[key] ELSE JNull

\* The items of items that are not empty
NonEmpty(items) == SelectSeq(items, LAMBDA item : item # <<>>)

\* str.strip()
RECURSIVE rstrip(_)
rstrip(s) == IF s # <<>> /\ IsSpace(Last(s)) THEN rstrip(Front(s)) ELSE s

strip(s) == rstrip(lstrip(s))

\* ketochef normalize_instructions; entry_steps is what one entry of a list
\* adds to steps
RECURSIVE normalize_instructions(_)
RECURSIVE entry_steps(_)
RECURSIVE list_steps(_)
entry_steps(entry) ==
    IF IsStr(entry) THEN <<cleanup_text(entry.str)>>
    ELSE IF IsDict(entry)
    THEN IF Has(entry, "text") /\ IsStr(Get(entry, "text"))
         THEN <<cleanup_text(Get(entry, "text").str)>>
         ELSE IF Has(entry, "itemListElement")
         THEN normalize_instructions(Get(entry, "itemListElement"))
         ELSE <<>>
    ELSE <<>>

list_steps(value) ==
    IF value = <<>> THEN <<>>
    ELSE entry_steps(Head(value)) \o list_steps(Tail(value))

normalize_instructions(value) ==
    IF IsNull(value) THEN <<>>
    ELSE IF IsStr(value) THEN <<cleanup_text(value.str)>>
    ELSE IF IsList(value) THEN NonEmpty(list_steps(value.list))
    ELSE IF IsDict(value)
    THEN IF Has(value, "text") /\ IsStr(Get(value, "text"))
         THEN <<cleanup_text(Get(value, "text").str)>>
         ELSE IF Has(value, "itemListElement")
         THEN normalize_instructions(Get(value, "itemListElement"))
         ELSE <<>>
    ELSE <<>>

\* keto-diet extract_json_ld_recipe: the instructions of instructions_raw
RECURSIVE kd_list_instructions(_)
kd_list_instructions(value) ==
    IF value = <<>> THEN <<>>
    ELSE LET instruction == Head(value)
             text == Get(instruction, "text")
         IN  (IF IsStr(instruction) THEN <<strip(instruction.str)>>
              ELSE IF IsDict(instruction) /\ IsStr(text) THEN <<strip(text.str)>>
              ELSE <<>>)
             \o kd_list_instructions(Tail(value))

kd_instructions(value) ==
    IF IsList(value) THEN kd_list_instructions(value.list)
    ELSE IF IsStr(value) THEN <<strip(value.str)>>
    ELSE <<>>

(***************************************************************************)
(* The structured data of a page: the application/ld+json blocks, each     *)
(* either the value json.loads returns or malformed (JSONDecodeError)      *)
(***************************************************************************)
Malformed == [malformed |-> TRUE]

Block(data) == [json |-> data]

IsMalformed(block) == "malformed" \in DOMAIN block

\* bool(value), for the values of the model
Truthy(value) ==
    IF IsStr(value) THEN value.str # <<>>
    ELSE IF IsList(value) THEN value.list # <<>>
    ELSE IF IsDict(value) THEN DOMAIN value.dict # {}
    ELSE "num" \in DOMAIN value

\* ketochef is_recipe_type
is_recipe_type(item) ==
    LET recipe_type == Get(item, "@type")
    IN  IF IsList(recipe_type)
        THEN \E i \in 1..Len(recipe_type.list) :
                IsStr(recipe_type.list[i]) /\ lower(recipe_type.list[i].str) = wRecipe
        ELSE IF IsStr(recipe_type) THEN lower(recipe_type.str) = wRecipe
        ELSE FALSE

\* find_recipe_object: the first item that is a dict of recipe type, or None
RECURSIVE first_recipe_item(_)
first_recipe_item(items) ==
    IF items = <<>> THEN JNull
    ELSE IF IsDict(Head(items)) /\ is_recipe_type(Head(items)) THEN Head(items)
    ELSE first_recipe_item(Tail(items))

\* ketochef find_recipe_object
find_recipe_object(data) ==
    IF IsDict(data)
    THEN IF is_recipe_type(data) THEN data
         ELSE IF IsList(Get(data, "@graph"))
         THEN first_recipe_item(Get(data, "@graph").list)
         ELSE JNull
    ELSE IF IsList(data) THEN first_recipe_item(data.list)
    ELSE JNull

\* coerce_list: what one entry of a list adds to result
coerce_entry(entry) ==
    IF IsStr(entry) THEN <<cleanup_text(entry.str)>>
    ELSE IF IsDict(entry) /\ IsStr(Get(entry, "text"))
    THEN <<cleanup_text(Get(entry, "text").str)>>
    ELSE <<>>

RECURSIVE coerce_entries(_)
coerce_entries(value) ==
    IF value = <<>> THEN <<>>
    ELSE coerce_entry(Head(value)) \o coerce_entries(Tail(value))

coerce_list(value) ==
    IF IsNull(value) THEN <<>>
    ELSE IF IsStr(value) THEN <<cleanup_text(value.str)>>
    ELSE IF IsList(value) THEN NonEmpty(coerce_entries(value.list))
    ELSE <<>>

\* What extract_json_ld_recipe returns when it returns None
NoJsonLd == [found |-> FALSE, raised |-> FALSE, name |-> <<>>, ingredients |-> <<>>,
             instructions |-> <<>>]

JsonLd(name, ingredients, instructions) ==
    [found |-> TRUE, raised |-> FALSE, name |-> name, ingredients |-> ingredients,
     instructions |-> instructions]

\* extract_json_ld_recipe with "break" for "continue" on a JSONDecodeError
RECURSIVE extract_json_ld_recipe_break(_)
extract_json_ld_recipe_break(blocks) ==
    IF blocks = <<>> THEN NoJsonLd
    ELSE IF IsMalformed(Head(blocks)) THEN NoJsonLd
    ELSE LET recipe_obj == find_recipe_object(Head(blocks).json)
             name == Get(recipe_obj, "name")
         IN  IF Truthy(recipe_obj) /\ Truthy(name)
             THEN JsonLd(name.str, coerce_list(Get(recipe_obj, "recipeIngredient")),
                         normalize_instructions(Get(recipe_obj, "recipeInstructions")))
             ELSE extract_json_ld_recipe_break(Tail(blocks))

\* ketochef extract_json_ld_recipe, over the blocks re.findall returns; the
\* names of the model are strings, so str(name) is name
RECURSIVE extract_json_ld_recipe(_)
extract_json_ld_recipe(blocks) ==
    IF blocks = <<>> THEN NoJsonLd
    ELSE IF IsMalformed(Head(blocks)) THEN extract_json_ld_recipe(Tail(blocks))
    ELSE LET recipe_obj == find_recipe_object(Head(blocks).json)
             name == Get(recipe_obj, "name")
         IN  IF Truthy(recipe_obj) /\ Truthy(name)
             THEN JsonLd(name.str, coerce_list(Get(recipe_obj, "recipeIngredient")),
                         normalize_instructions(Get(recipe_obj, "recipeInstructions")))
             ELSE extract_json_ld_recipe(Tail(blocks))

\* keto-diet extract_json_ld_recipe: is_recipe
kd_is_recipe(entry) ==
    LET entry_type == IF Truthy(Get(entry, "@type")) THEN Get(entry, "@type")
                      ELSE Get(entry, "type")
    IN  IF IsList(entry_type)
        THEN \E i \in 1..Len(entry_type.list) :
                IsStr(entry_type.list[i]) /\ lower(entry_type.list[i].str) = wRecipe
        ELSE IsStr(entry_type) /\ lower(entry_type.str) = wRecipe

\* The first candidate that is a dict and a recipe, or None
RECURSIVE kd_first_recipe_entry(_)
kd_first_recipe_entry(candidates) ==
    IF candidates = <<>> THEN JNull
    ELSE IF IsDict(Head(candidates)) /\ kd_is_recipe(Head(candidates))
    THEN Head(candidates)
    ELSE kd_first_recipe_entry(Tail(candidates))

\* "[i.strip() for i in items if isinstance(i, str)]"
RECURSIVE kd_strip_strings(_)
kd_strip_strings(items) ==
    IF items = <<>> THEN <<>>
    ELSE (IF IsStr(Head(items)) THEN <<strip(Head(items).str)>> ELSE <<>>)
         \o kd_strip_strings(Tail(items))

\* keto-diet extract_json_ld_recipe: the Recipe of a recipe entry.  Iterating
\* a str gives its characters; iterating None or a number raises TypeError.
kd_entry_recipe(entry) ==
    LET name == Get(entry, "name")
        value == Get(entry, "recipeIngredient")
        instructions == kd_instructions(Get(entry, "recipeInstructions"))
    IN  IF Has(entry, "recipeIngredient") /\ ~IsList(value) /\ ~IsStr(value) /\ ~IsDict(value)
        THEN [found |-> FALSE, raised |-> TRUE, name |-> <<>>, ingredients |-> <<>>,
              instructions |-> <<>>]
        ELSE JsonLd(IF IsStr(name) THEN strip(name.str) ELSE <<>>,
                    IF ~Has(entry, "recipeIngredient") THEN <<>>
                    ELSE IF IsList(value) THEN kd_strip_strings(value.list)
                    ELSE IF IsStr(value)
                    THEN [i \in 1..Len(value.str) |-> strip(<<value.str[i]>>)]
                    ELSE <<>>,
                    instructions)

\* keto-diet extract_json_ld_recipe, over the blocks re.findall returns
RECURSIVE kd_extract_json_ld_recipe(_)
kd_extract_json_ld_recipe(blocks) ==
    IF blocks = <<>> THEN NoJsonLd
    ELSE IF IsMalformed(Head(blocks)) THEN kd_extract_json_ld_recipe(Tail(blocks))
    ELSE LET data == Head(blocks).json
             candidates == IF IsList(data) THEN data.list ELSE <<data>>
             entry == kd_first_recipe_entry(candidates)
         IN  IF IsDict(entry) THEN kd_entry_recipe(entry)
             ELSE kd_extract_json_ld_recipe(Tail(blocks))

\* The URL as the string fetch_recipe is given
url_string(u) ==
    <<"/", "/", u.netloc>> \o u.path
    \o (IF u.query = <<>> THEN <<>> ELSE <<"?">> \o u.query)

\* s.split("/")[-1]
RECURSIVE last_piece(_)
last_piece(s) ==
    IF s = <<>> \/ Last(s) = "/" THEN <<>> ELSE Append(last_piece(Front(s)), Last(s))

\* url.rstrip("/").split("/")[-1].replace("-", " ")
name_from_url(u) ==
    LET piece == last_piece(RStripSlash(url_string(u)))
    IN  [i \in 1..Len(piece) |-> IF piece[i] = "-" THEN " " ELSE piece[i]]

(***************************************************************************)
(* keto-diet: RecipeContentParser, which keeps title, _in_h1,              *)
(* _section_stack, ingredients and instructions                            *)
(***************************************************************************)
\* keto-diet extract_recipe_details returns the structured record when it has
\* a name
kd_json_ld_named ==
    LET json_ld_recipe == kd_extract_json_ld_recipe(script_blocks)
    IN  json_ld_recipe.found /\ json_ld_recipe.name # <<>>

\* parser.feed(recipe_html) of keto-diet extract_recipe_details
kd_feed ==
    /\ pc = "parse"
    /\ ~kd_extract_json_ld_recipe(script_blocks).raised
    /\ ~kd_json_ld_named

kd_handle_starttag ==
    /\ prog = "kd" /\ kd_feed
    /\ rawdata # <<>> /\ Head(rawdata).type = "start"
    /\ LET tag == Head(rawdata).tag
           class_tokens == {lower(token) : token \in Head(rawdata).class}
       IN  /\ _in_h1' = IF tag = "h1" THEN TRUE ELSE _in_h1
           /\ _section_stack' =
                Append(_section_stack,
                       IF class_tokens \cap IngredientClasses # {} THEN "ingredients"
                       ELSE IF class_tokens \cap InstructionClasses # {} THEN "instructions"
                       ELSE "")
    /\ rawdata' = Tail(rawdata)
    /\ UNCHANGED <<classifyVars, crawlVars, recipeVars, callVars, html_text, title,
                   _heading_buffer, _capture_heading, _section, ingredients_raw,
                   instructions_raw>>

kd_handle_endtag ==
    /\ prog = "kd" /\ kd_feed
    /\ rawdata # <<>> /\ Head(rawdata).type = "end"
    /\ _in_h1' = IF Head(rawdata).tag = "h1" THEN FALSE ELSE _in_h1
    /\ _section_stack' =
         IF _section_stack # <<>> THEN Front(_section_stack) ELSE _section_stack
    /\ rawdata' = Tail(rawdata)
    /\ UNCHANGED <<classifyVars, crawlVars, recipeVars, callVars, html_text, title,
                   _heading_buffer, _capture_heading, _section, ingredients_raw,
                   instructions_raw>>

kd_handle_data ==
    /\ prog = "kd" /\ kd_feed
    /\ rawdata # <<>> /\ Head(rawdata).type = "data"
    /\ LET text == split_join(Head(rawdata).data)
           section == IF _section_stack # <<>> THEN Last(_section_stack) ELSE ""
       IN  IF text = <<>>
           THEN UNCHANGED <<title, ingredients_raw, instructions_raw>>
           ELSE /\ title' = IF _in_h1 /\ title = <<>> THEN text ELSE title
                /\ ingredients_raw' =
                     IF section = "ingredients"
                     THEN Append(ingredients_raw, text) ELSE ingredients_raw
                /\ instructions_raw' =
                     IF section = "instructions"
                     THEN Append(instructions_raw, text) ELSE instructions_raw
    /\ rawdata' = Tail(rawdata)
    /\ UNCHANGED <<classifyVars, crawlVars, recipeVars, callVars, html_text, _in_h1,
                   _heading_buffer, _capture_heading, _section, _section_stack>>

\* The page is fed to the RecipeContentParser of ketochef or of keto-diet
ParseInit ==
    /\ url = NoURL
    /\ cls = NoResult
    /\ \E p \in {"kc", "kd"} : CrawlStart(p, "parse", NoURL, {}, <<>>)
    /\ \E document \in Documents : RecipeContentParser(document)
    /\ script_blocks = <<>>
    /\ recipe = NoRecipe
    /\ CallIdle

ParseNext ==
    \/ handle_starttag \/ handle_endtag \/ handle_data
    \/ kd_handle_starttag \/ kd_handle_endtag \/ kd_handle_data

SpecParse == ParseInit /\ [][ParseNext]_vars

(***************************************************************************)
(* The Recipe record of a page                                             *)
(***************************************************************************)
Recipe(u, name, ingredients, instructions) ==
    [built |-> TRUE, url |-> u, name |-> name, ingredients |-> ingredients,
     instructions |-> instructions]

\* ketochef parse_recipe_html, once parser.feed(html_text) is over
parse_recipe_html ==
    LET json_ld_recipe == extract_json_ld_recipe(script_blocks)
    IN  Recipe(<<>>,
               IF title # <<>> THEN title
               ELSE IF json_ld_recipe.found THEN json_ld_recipe.name ELSE <<>>,
               merge_section_data(ingredients_raw,
                   IF json_ld_recipe.found THEN json_ld_recipe.ingredients ELSE <<>>),
               merge_section_data(instructions_raw,
                   IF json_ld_recipe.found THEN json_ld_recipe.instructions ELSE <<>>))

\* ketochef fetch_recipe
fetch_recipe ==
    /\ prog = "kc" /\ pc = "parse"
    /\ rawdata = <<>>
    /\ ~recipe.built
    /\ recipe' = [parse_recipe_html EXCEPT
                    !.url = url_string(url),
                    !.name = IF parse_recipe_html.name = <<>> THEN name_from_url(url)
                             ELSE parse_recipe_html.name]
    /\ pc' = "parsed"
    /\ UNCHANGED <<classifyVars, parseVars, callVars, script_blocks, prog, web, to_visit,
                   start_url, hrefs, visited, recipes, listing_pages, recipe_links,
                   records, written, crawlFetches, runFetches, failedFetches>>

\* keto-diet extract_recipe_details; a TypeError of extract_json_ld_recipe
\* leaves main
kd_extract_recipe_details ==
    /\ prog = "kd" /\ pc = "parse"
    /\ ~recipe.built
    /\ LET json_ld_recipe == kd_extract_json_ld_recipe(script_blocks)
       IN  IF json_ld_recipe.raised
           THEN /\ rawdata = html_text
                /\ pc' = "aborted"
                /\ UNCHANGED recipe
           ELSE IF kd_json_ld_named
           THEN /\ rawdata = html_text
                /\ pc' = "parsed"
                /\ recipe' = Recipe(url_string(url), json_ld_recipe.name,
                                    json_ld_recipe.ingredients,
                                    json_ld_recipe.instructions)
           ELSE /\ rawdata = <<>>
                /\ pc' = "parsed"
                /\ recipe' = Recipe(url_string(url), title, ingredients_raw,
                                    instructions_raw)
    /\ UNCHANGED <<classifyVars, parseVars, callVars, script_blocks, prog, web, to_visit,
                   start_url, hrefs, visited, recipes, listing_pages, recipe_links,
                   records, written, crawlFetches, runFetches, failedFetches>>

(***************************************************************************)
(* SpecRecipe: one recipe page of ketochef or keto-diet, from its          *)
(* application/ld+json blocks and its markup to the Recipe record          *)
(***************************************************************************)
MaxBlocks == 2

wArticle == <<"A","r","t","i","c","l","e">>

\* A JSON object of "@type" type with the keys given
Object(type, fields) == JDict(("@type" :> JStr(type)) @@ fields)

NoFields == [key \in {} |-> JNull]

\* The Recipe objects: with or without a name, with or without ingredients
RecipeObjects ==
    { Object(<<"R">> \o Tail(wRecipe), name @@ ingredients) :
        name \in {NoFields, "name" :> JStr(<<"N">>)},
        ingredients \in {NoFields, "recipeIngredient" :> JList(<<JStr(<<"j">>)>>)} }

ArticleObject == Object(wArticle, "name" :> JStr(<<"A">>))

NamedRecipe ==
    Object(wRecipe, "name" :> JStr(<<"G">>)
                    @@ "recipeInstructions" :> JList(<<JDict("text" :> JStr(<<"s">>))>>))

\* What json.loads gives for the blocks of a page, or Malformed
Blocks ==
    {Malformed, Block(ArticleObject)}
    \cup {Block(object) : object \in RecipeObjects}
    \cup {Block(JDict("@graph" :> JList(<<ArticleObject, NamedRecipe>>))),
          Block(JList(<<ArticleObject, NamedRecipe>>)),
          Block(Object(wRecipe, "name" :> JStr(<<"Z">>) @@ "recipeIngredient" :> JNull))}

BlockLists == UNION { [1..n -> Blocks] : n \in 0..MaxBlocks }

\* "<script type='application/ld+json'>...</script>" for each block
RECURSIVE Scripts(_)
Scripts(blocks) ==
    IF blocks = <<>> THEN <<>>
    ELSE <<StartTag("script", {}), Data(<<"{", "}">>), EndTag("script")>>
         \o Scripts(Tail(blocks))

\* The markup of a recipe page: a title or none, an ingredient and a step
\* under class hints or none
Bodies ==
    { Heading1(h1) \o ingredient \o step :
        h1 \in Titles,
        ingredient \in {<<>>, <<StartTag("li", {SubSeq(wIngredients, 1, 10)}),
                                 Data(<<"i">>), EndTag("li")>>},
        step \in {<<>>, <<StartTag("p", {wMethod}), Data(<<"m">>), EndTag("p")>>} }

RecipeURLs ==
    { URL(BaseNetloc, <<"/">> \o wRecipes \o <<"/", "a", "-", "b">>, qNone),
      URL(BaseNetloc, <<"/">> \o wRecipes \o <<"/", "c", "/">>, qNone) }

RecipeInit ==
    /\ cls = NoResult
    /\ url \in RecipeURLs
    /\ \E p \in {"kc", "kd"} : CrawlStart(p, "parse", NoURL, {}, <<>>)
    /\ script_blocks \in BlockLists
    /\ \E body \in Bodies : RecipeContentParser(Scripts(script_blocks) \o body)
    /\ recipe = NoRecipe
    /\ CallIdle

RecipeNext ==
    \/ handle_starttag \/ handle_endtag \/ handle_data
    \/ kd_handle_starttag \/ kd_handle_endtag \/ kd_handle_data
    \/ fetch_recipe
    \/ kd_extract_recipe_details

SpecRecipe == RecipeInit /\ [][RecipeNext]_vars

(***************************************************************************)
(* SpecText: the text functions, each called once on an input of a         *)
(* bounded set                                                             *)
(***************************************************************************)
MaxPieces == 3

MaxEntries == 2

\* What the texts are made of
Pieces == { <<"a">>, <<" ">>, <<"&">>, wAmp \o <<";">>, <<"M">> \o Tail(wMethod) }

RECURSIVE TextsOf(_)
TextsOf(n) ==
    IF n = 0 THEN {<<>>}
    ELSE LET shorter == TextsOf(n - 1)
         IN  shorter \cup {t \o piece : t \in shorter, piece \in Pieces}

Texts == TextsOf(MaxPieces)

\* The entries of the lists merged: with a duplicate after cleanup (" a"), an
\* entry that is empty after cleanup, a heading and a character reference
EntryTexts ==
    { <<"a">>, <<" ", "a">>, <<"b">>, <<" ">>, <<"M">> \o Tail(wMethod),
      <<"&">> \o wAmp \o <<";">> }

RECURSIVE ListsOf(_, _)
ListsOf(S, n) ==
    IF n = 0 THEN {<<>>}
    ELSE LET shorter == ListsOf(S, n - 1)
         IN  shorter \cup {Append(l, x) : l \in shorter, x \in S}

EntryLists == ListsOf(EntryTexts, MaxEntries)

MaxLeaves == 2

MaxDepth == 2

\* A step: a string, or an object with a text field
StepLeaves == { JStr(<<"a">>), JDict("text" :> JStr(<<" ", "b">>)) }

\* A group of steps: an object with a name and the list of its steps
StepGroup(steps) ==
    JDict(("name" :> JStr(<<"s">>)) @@ ("itemListElement" :> JList(steps)))

\* The lists with k steps in all, in groups nested at most d deep, and the
\* entries of such lists
RECURSIVE StepLists(_, _)
RECURSIVE StepEntries(_, _)
StepLists(k, d) ==
    IF k = 0 THEN {<<>>}
    ELSE UNION { {<<entry>> \o rest :
                    entry \in StepEntries(j, d), rest \in StepLists(k - j, d)} :
                 j \in 1..k }

StepEntries(k, d) ==
    (IF k = 1 THEN StepLeaves ELSE {})
    \cup (IF d = 0 THEN {} ELSE {StepGroup(steps) : steps \in StepLists(k, d - 1)})

\* The values of recipeInstructions: a list, or one step or group on its own
InstructionValues ==
    UNION { {JList(steps) : steps \in StepLists(k, MaxDepth)} \cup StepEntries(k, MaxDepth) :
            k \in 0..MaxLeaves }

TextInit ==
    /\ url = NoURL
    /\ cls = NoResult
    /\ CrawlIdle
    /\ RecipeIdle
    /\ ret = NoReturn
    /\ \/ \E text \in Texts : call = [fn |-> "cleanup_text", text |-> text]
       \/ \E raw \in EntryLists, json_ld \in EntryLists :
            call = [fn |-> "merge_section_data", raw |-> raw, json_ld |-> json_ld]
       \/ \E value \in InstructionValues, fn \in {"normalize_instructions", "kd_instructions"} :
            call = [fn |-> fn, value |-> value]
       \/ \E blocks \in BlockLists,
             fn \in {"extract_json_ld_recipe", "kd_extract_json_ld_recipe"} :
            call = [fn |-> fn, blocks |-> blocks]

Return(value) ==
    /\ ~ret.done
    /\ ret' = [done |-> TRUE, value |-> value]
    /\ UNCHANGED <<classifyVars, crawlVars, parseVars, recipeVars, call>>

CallCleanupText ==
    /\ call.fn = "cleanup_text"
    /\ Return(cleanup_text(call.text))

CallMergeSectionData ==
    /\ call.fn = "merge_section_data"
    /\ Return(merge_section_data(call.raw, call.json_ld))

CallNormalizeInstructions ==
    /\ call.fn = "normalize_instructions"
    /\ Return(normalize_instructions(call.value))

CallKdInstructions ==
    /\ call.fn = "kd_instructions"
    /\ Return(kd_instructions(call.value))

CallExtractJsonLdRecipe ==
    /\ call.fn = "extract_json_ld_recipe"
    /\ Return(extract_json_ld_recipe(call.blocks))

CallKdExtractJsonLdRecipe ==
    /\ call.fn = "kd_extract_json_ld_recipe"
    /\ Return(kd_extract_json_ld_recipe(call.blocks))

TextNext ==
    \/ CallCleanupText \/ CallMergeSectionData
    \/ CallNormalizeInstructions \/ CallKdInstructions
    \/ CallExtractJsonLdRecipe \/ CallKdExtractJsonLdRecipe

SpecText == TextInit /\ [][TextNext]_vars

(***************************************************************************)
(* Properties                                                              *)
(***************************************************************************)
\* The absolute URLs the page at p links to, as the crawl reads them
LinksOf(p) == {urljoin(l) : l \in web[p]}

C2_OmermillerExclusive ==
    cls.scraper = "omermiller" =>
        /\ ~(cls.recipe /\ cls.listing)
        /\ (cls.recipes = {} \/ cls.pages = {})

\* A recipe-like path with a paged= query was classified: a listing page only.
C2_Witness ==
    /\ cls.scraper = "omermiller"
    /\ url.path = <<"/">> \o wRecipe \o <<"/">> \o wTwo
    /\ url.query = qPaged
    /\ cls.listing /\ cls.pages # {}

\* C3: for every URL, the ketochef and the keto-diet is_recipe_link and
\* is_listing_page are never both true.
C3_FixedSiteExclusive ==
    cls.scraper \in {"ketochef", "keto-diet"} => ~(cls.recipe /\ cls.listing)

\* The spellings of the listing root: each segment decoded or percent-encoded
RootSegments(scraper, category_path) ==
    IF scraper \in {"ketochef", "keto-diet"} THEN {<<wRecipes>>}
    ELSE IF scraper # "omermiller" THEN {}
    ELSE IF category_path = <<"/">> \o wRecipes THEN {<<wRecipes>>}
    ELSE IF category_path = <<"/">> \o wM THEN {<<wM>>, <<wMEnc>>}
    ELSE {<<wCategory, wM>>, <<wCategory, wMEnc>>}

\* u is the listing root: on the site, with or without a trailing slash,
\* whatever its query
IsRootURL(u, scraper, category_path) ==
    /\ u.netloc \in {"", BaseNetloc}
    /\ \E segs \in RootSegments(scraper, category_path), t \in {<<>>, <<"/">>} :
        u.path = JoinPath(segs) \o t

C4_ListingFetchFailureNotFatal ==
    (\E f \in failedFetches : f[1] \in {"start", "crawl", "links"}) => pc # "aborted"

\* C5: a fetch_html failure on a recipe page does not end the run: the other
\* recipes are fetched and the records built are handed to write_csv.
C5_RecipeFetchFailureNotFatal ==
    (\E f \in failedFetches : f[1] = "recipes") => pc # "aborted"

\* What the program classifies on a fetched page
ListingLinksOn(p) ==
    IF prog = "om" THEN om_extract_listing_pages(web[p], CATEGORY_PATH)
    ELSE kc_extract_listing_pages(web[p])

RecipeLinksOn(p) ==
    IF prog = "om" THEN om_extract_recipe_links(web[p], CATEGORY_PATH)
    ELSE kc_extract_recipe_links(web[p])

\* The pages reachable from S through listing-classified links
RECURSIVE Reachable(_)
Reachable(S) ==
    LET next == S \cup UNION {ListingLinksOn(p) : p \in S \cap DOMAIN web}
    IN  IF next = S THEN S ELSE Reachable(next)

\* C7: when no fetch fails, the crawl returns exactly the recipe links (as
\* extract_recipe_links returns them) of the seed page and of every listing
\* page reachable from the seed through listing-classified links.
C7_ExactlyTheReachableRecipeLinks ==
    LET pages == Reachable({start_url})
        expected == UNION {RecipeLinksOn(p) : p \in pages}
    IN  /\ (prog = "om" /\ pc = "done" /\ failedFetches = {}) =>
                /\ pages \subseteq DOMAIN web
                /\ recipes = expected
                /\ Range(written) = expected
        /\ (prog = "kc" /\ pc \in {"recipes", "done"} /\ failedFetches = {}) =>
                /\ pages \subseteq DOMAIN web
                /\ recipes = expected
                /\ Range(recipe_links) \cup Range(records) = expected

\* The two-page listing: the seed has two recipe links and the link to page
\* 2, page 2 has two more recipe links, and the crawl returned the four URLs.
C7_Witness ==
    /\ prog = "om" /\ pc = "done" /\ failedFetches = {}
    /\ start_url = CATEGORY_URL
    /\ DOMAIN web = {CATEGORY_URL, OmPage2}
    /\ Cardinality(RecipeLinksOn(CATEGORY_URL)) = 2
    /\ Cardinality(RecipeLinksOn(OmPage2)) = 2
    /\ Cardinality(recipes) = 4

\* C8: in a ketochef run no URL is fetched more than once.
C8_NoDuplicateFetchInRun ==
    prog = "kc" => \A u \in DOMAIN runFetches : runFetches[u] <= 1

\* C9: the listing crawl terminates, whatever the links between the pages:
\* eventually the frontier is empty and the crawl loop has returned.
C9_ListingCrawlTerminates ==
    <>(pc \notin {"crawl", "aborted"} /\ to_visit = <<>>)

\* C10: a heading-driven section ends when the walk leaves the subtree the
\* heading occurred in: on a page with an ingredients sub-heading followed by
\* the list items in one element and then a sibling element with an unrelated
\* list, the parser captures exactly the items and none of the unrelated text.
C10_HeadingSectionEndsWithSubtree ==
    \A h1 \in Titles, heading \in Headings :
        ( /\ prog # "kd" /\ rawdata = <<>>
          /\ html_text = DepthScopingPage(h1, heading, Items, {}, Unrelated)
          /\ classify_heading(split_join(heading)) = "ingredients" )
        => ingredients_raw = [i \in 1..Len(Items) |-> split_join(Items[i])]

\* Where the normalized text x is first seen among the entries
FirstSeen(entries, x) ==
    CHOOSE i \in 1..Len(entries) :
        /\ cleanup_text(entries[i]) = x
        /\ \A j \in 1..(i - 1) : cleanup_text(entries[j]) # x

\* C11: the list merge_section_data returns has no two equal entries, holds
\* its entries (each the normalized text of an input entry) in the order they
\* are first seen in raw + json_ld, and has no entry is_heading_text accepts.
C11_MergeDedupedOrderedNoHeadings ==
    (call.fn = "merge_section_data" /\ ret.done) =>
        LET entries == call.raw \o call.json_ld
            merged == ret.value
        IN  /\ \A i, j \in 1..Len(merged) : i # j => merged[i] # merged[j]
            /\ \A i \in 1..Len(merged) :
                \E k \in 1..Len(entries) : cleanup_text(entries[k]) = merged[i]
            /\ \A i, j \in 1..Len(merged) :
                i < j => FirstSeen(entries, merged[i]) < FirstSeen(entries, merged[j])
            /\ \A i \in 1..Len(merged) : ~is_heading_text(merged[i])

\* A merge returned two entries from lists where the heuristic list has a
\* heading and the structured list repeats, up to whitespace, a heuristic entry.
C11_Witness ==
    /\ call.fn = "merge_section_data" /\ ret.done
    /\ call.raw = << <<"M">> \o Tail(wMethod), <<"a">> >>
    /\ call.json_ld = << <<" ", "a">>, <<"b">> >>
    /\ ret.value = << <<"a">>, <<"b">> >>

\* C15: cleanup_text is idempotent: cleaning a cleaned text changes nothing.
C15_CleanupTextIdempotent ==
    (call.fn = "cleanup_text" /\ ret.done) => cleanup_text(ret.value) = ret.value

\* The texts of the steps of a recipeInstructions value, left to right, the
\* groups flattened in place
RECURSIVE StepTexts(_)
StepTexts(value) ==
    IF IsStr(value) THEN <<value.str>>
    ELSE IF IsList(value)
    THEN IF value.list = <<>> THEN <<>>
         ELSE StepTexts(Head(value.list)) \o StepTexts(JList(Tail(value.list)))
    ELSE IF IsDict(value)
    THEN IF Has(value, "text") THEN StepTexts(Get(value, "text"))
         ELSE IF Has(value, "itemListElement")
         THEN StepTexts(Get(value, "itemListElement"))
         ELSE <<>>
    ELSE <<>>

\* C14: for a recipeInstructions value of strings, step objects and step
\* groups nested to any depth, the instructions returned are the step texts
\* (normalized) in document order, each step once.
C14_InstructionsInDocumentOrder ==
    (call.fn \in {"normalize_instructions", "kd_instructions"} /\ ret.done) =>
        LET steps == StepTexts(call.value)
        IN  ret.value = [i \in 1..Len(steps) |-> cleanup_text(steps[i])]

\* u is on the pagination pattern of the listing: <root>/page/<n>..., or
\* under the root with a page number in its query
IsPaginationURL(u, scraper, category_path) ==
    /\ u.netloc \in {"", BaseNetloc}
    /\ \E segs \in RootSegments(scraper, category_path) :
        \/ \E n \in Words :
            StartsWith(u.path, JoinPath(segs) \o <<"/">> \o wPage \o <<"/">> \o n)
        \/ /\ StartsWith(u.path, JoinPath(segs))
           /\ Contains(u.query, <<"p","a","g","e","=">>)

\* C16: is_listing_page (omermiller, ketochef) is true for every same-origin
\* URL whose path is the listing root, with or without the trailing slash,
\* percent-encoded or decoded, and for every URL on the pagination pattern.
C16_RootAndPaginationAreListingPages ==
    ( /\ cls.scraper \in {"omermiller", "ketochef"}
      /\ \/ IsRootURL(url, cls.scraper, cls.category_path)
         \/ IsPaginationURL(url, cls.scraper, cls.category_path) )
    => cls.listing

\* C17: ketochef extract_recipe_links returns the absolute URL of every
\* same-origin anchor at /recipe/<slug> or /recipes/<slug>, and returns
\* nothing for an anchor at the listing root or on the pagination pattern.
C17_KetochefSingularAndPluralRecipeLinks ==
    (cls.scraper = "ketochef" /\ url.netloc \in {"", BaseNetloc}) =>
        LET path == RStripSlash(url.path)
            pagination == IsPaginationURL(url, "ketochef", <<>>)
            slug == \E prefix \in {wRecipe, wRecipes}, word \in Words \ {wPage} :
                        path = JoinPath(<<prefix, word>>)
        IN  /\ ((slug /\ ~pagination) => cls.recipes = {urljoin(url)})
            /\ ((IsRootURL(url, "ketochef", <<>>) \/ pagination) => cls.recipes = {})

\* The type an entry declares includes "Recipe", whatever the case
DeclaresRecipe(entry) ==
    /\ IsDict(entry)
    /\ LET type == Get(entry, "@type")
       IN  \/ IsStr(type) /\ lower(type.str) = wRecipe
           \/ IsList(type) /\ \E i \in 1..Len(type.list) :
                IsStr(type.list[i]) /\ lower(type.list[i].str) = wRecipe

\* The entries of a parsed block, in document order: the object and the
\* entries of its graph list, or the entries of the array
EntriesOf(data) ==
    IF IsList(data) THEN data.list
    ELSE IF IsDict(data)
    THEN <<data>> \o (IF IsList(Get(data, "@graph")) THEN Get(data, "@graph").list ELSE <<>>)
    ELSE <<>>

\* The entries of the blocks that parse, in block order
RECURSIVE AllEntries(_)
AllEntries(blocks) ==
    IF blocks = <<>> THEN <<>>
    ELSE (IF IsMalformed(Head(blocks)) THEN <<>> ELSE EntriesOf(Head(blocks).json))
         \o AllEntries(Tail(blocks))

\* The first entry, in block order, that declares the Recipe type, or null
FirstRecipeEntry(blocks) ==
    LET entries == AllEntries(blocks)
    IN  IF \E i \in 1..Len(entries) : DeclaresRecipe(entries[i])
        THEN entries[CHOOSE i \in 1..Len(entries) :
                        /\ DeclaresRecipe(entries[i])
                        /\ \A j \in 1..(i - 1) : ~DeclaresRecipe(entries[j])]
        ELSE JNull

\* The value of a key of the first Recipe entry, null without the entry or
\* the key
Field(blocks, key) ==
    IF IsDict(FirstRecipeEntry(blocks)) THEN Get(FirstRecipeEntry(blocks), key) ELSE JNull

\* What the structured block says: the name ("" if absent), the ingredients
\* and the steps of the first Recipe entry
StructuredName(blocks) ==
    LET name == Field(blocks, "name")
    IN  IF IsStr(name) THEN split_join(name.str) ELSE <<>>

StructuredIngredients(blocks) ==
    LET value == Field(blocks, "recipeIngredient")
    IN  IF IsStr(value) THEN <<split_join(value.str)>>
        ELSE IF IsList(value)
        THEN LET strings == SelectSeq(value.list, IsStr)
             IN  [i \in 1..Len(strings) |-> split_join(strings[i].str)]
        ELSE <<>>

StructuredInstructions(blocks) ==
    LET steps == StepTexts(Field(blocks, "recipeInstructions"))
    IN  [i \in 1..Len(steps) |-> split_join(steps[i])]

\* The text of the first level-1 heading of a page, "" if it has none
RECURSIVE HeadingTitle(_)
HeadingTitle(document) ==
    IF Len(document) < 2 THEN <<>>
    ELSE IF /\ document[1].type = "start" /\ document[1].tag = "h1"
            /\ document[2].type = "data"
    THEN split_join(document[2].data)
    ELSE HeadingTitle(Tail(document))

\* The texts of the elements of a page that carry one of the class hints
RECURSIVE HintedTexts(_, _)
HintedTexts(document, hints) ==
    IF Len(document) < 2 THEN <<>>
    ELSE (IF /\ document[1].type = "start" /\ document[1].class \cap hints # {}
             /\ document[2].type = "data"
          THEN <<split_join(document[2].data)>> ELSE <<>>)
         \o HintedTexts(Tail(document), hints)

\* The last segment of the path of u, its hyphens replaced by spaces
LastSegmentName(u) ==
    LET path == RStripSlash(u.path)
        start == CHOOSE i \in 1..Len(path) :
                    path[i] = "/" /\ \A j \in (i + 1)..Len(path) : path[j] # "/"
    IN  [i \in 1..(Len(path) - start) |->
            IF path[start + i] = "-" THEN " " ELSE path[start + i]]

\* C12: the name of the record is the structured name when that is not
\* empty, also on a page with a level-1 heading; else the heading title when
\* that is not empty; else the name derived from the URL.
C12_NamePrecedenceStructuredFirst ==
    recipe.built =>
        recipe.name =
            IF StructuredName(script_blocks) # <<>> THEN StructuredName(script_blocks)
            ELSE IF HeadingTitle(html_text) # <<>> THEN HeadingTitle(html_text)
            ELSE LastSegmentName(url)

\* C13: every record built has a name that is not empty; on a page where
\* neither the structured block nor the markup yields anything the record has
\* the name derived from the URL and empty lists.
C13_RecordNameNeverEmpty ==
    recipe.built =>
        /\ recipe.name # <<>>
        /\ ( /\ FirstRecipeEntry(script_blocks) = JNull
             /\ HeadingTitle(html_text) = <<>>
             /\ HintedTexts(html_text, IngredientClasses \cup InstructionClasses) = <<>> )
           => /\ recipe.name = LastSegmentName(url)
              /\ recipe.ingredients = <<>>
              /\ recipe.instructions = <<>>

\* The list a record must carry when exactly one of the two sources has one
OnlyPopulated(structured, heuristic, carried) ==
    /\ (structured # <<>> /\ heuristic = <<>>) => carried = structured
    /\ (structured = <<>> /\ heuristic # <<>>) => carried = heuristic

\* C18: for ingredients and for instructions, when exactly one of the
\* structured block and the markup yields a list that is not empty, the record
\* carries that list, whether the structured block has a name or not.
C18_OnlyPopulatedSourceIsKept ==
    recipe.built =>
        /\ OnlyPopulated(StructuredIngredients(script_blocks),
                         HintedTexts(html_text, IngredientClasses), recipe.ingredients)
        /\ OnlyPopulated(StructuredInstructions(script_blocks),
                         HintedTexts(html_text, InstructionClasses), recipe.instructions)

\* C19: the structured-data extractor returns the first entry, in block
\* order, that declares the Recipe type, with its name ("" if it has none),
\* its ingredients and its instructions, and nothing when there is no such
\* entry.
C19_FirstRecipeEntryReturnedEvenNameless ==
    (call.fn \in {"extract_json_ld_recipe", "kd_extract_json_ld_recipe"} /\ ret.done) =>
        IF FirstRecipeEntry(call.blocks) = JNull THEN ret.value = NoJsonLd
        ELSE ret.value = JsonLd(StructuredName(call.blocks),
                                StructuredIngredients(call.blocks),
                                StructuredInstructions(call.blocks))

\* The blocks of a page that parse
WellFormed(blocks) == SelectSeq(blocks, LAMBDA block : ~IsMalformed(block))

\* C20: a block that does not parse is skipped and nothing is raised for it:
\* the extractor returns what it returns for the blocks that parse, the run
\* is not aborted unless it is for those blocks alone, and on a page where no
\* block has a Recipe entry the record holds the heading title and the lists
\* of the markup.
C20_MalformedBlockSkipped ==
    (pc \in {"parsed", "aborted"}) =>
        /\ extract_json_ld_recipe(script_blocks)
             = extract_json_ld_recipe(WellFormed(script_blocks))
        /\ kd_extract_json_ld_recipe(script_blocks)
             = kd_extract_json_ld_recipe(WellFormed(script_blocks))
        /\ pc = "aborted" => kd_extract_json_ld_recipe(WellFormed(script_blocks)).raised
        /\ FirstRecipeEntry(script_blocks) = JNull =>
             /\ recipe.built
             /\ HeadingTitle(html_text) # <<>> => recipe.name = HeadingTitle(html_text)
             /\ recipe.ingredients = HintedTexts(html_text, IngredientClasses)
             /\ recipe.instructions = HintedTexts(html_text, InstructionClasses)

\* A record was built from a page whose first block does not parse and whose
\* second block is a Recipe entry: the record has the lists of that entry.
C20_Witness ==
    /\ recipe.built
    /\ Len(script_blocks) = 2
    /\ IsMalformed(script_blocks[1])
    /\ ~IsMalformed(script_blocks[2])
    /\ DeclaresRecipe(script_blocks[2].json)
    /\ StructuredName(script_blocks) = <<"N">>
    /\ recipe.ingredients = <<<<"j">>>>
    /\ HintedTexts(html_text, IngredientClasses) = <<>>

\* The listing pages keto-diet can reach from S by the links it classifies
\* as listing pages
RECURSIVE KdReachable(_)
KdReachable(S) ==
    LET next == S \cup UNION {kd_extract_listing_pages(web[p]) : p \in S \cap DOMAIN web}
    IN  IF next = S THEN S ELSE KdReachable(next)

\* C21: when no fetch fails, keto-diet has fetched every listing page that
\* is reachable from the listing root through pagination links, directly or
\* through other listing pages, and has collected the recipe links of each.
C21_KetoDietTraversesAllListingPages ==
    (prog = "kd" /\ pc \in {"recipes", "done"} /\ failedFetches = {}) =>
        LET pages == KdReachable({kd_RECIPES_URL})
        IN  /\ pages \subseteq DOMAIN web
            /\ \A p \in pages \cap DOMAIN web : kd_extract_recipe_links(web[p]) \subseteq recipes

\* The listing pages within d links of the seed, by the pages fetched so far
RECURSIVE Within(_)
Within(d) ==
    IF d = 0 THEN {start_url}
    ELSE Within(d - 1)
         \cup UNION {ListingLinksOn(p) : p \in Within(d - 1) \cap DOMAIN web}

\* The link distance of a discovered listing page from the seed
Distance(u) ==
    CHOOSE d \in 0..(Cardinality(hrefs) + 1) :
        u \in Within(d) /\ (d = 0 \/ u \notin Within(d - 1))

\* C22: the crawl is breadth-first: when a listing page at link distance
\* d + 1 from the seed is fetched, no discovered listing page at distance d
\* is still waiting in the frontier.
C22_BreadthFirstOrder ==
    [][ \A u \in visited' \ visited :
            \A i \in 1..Len(to_visit) :
                (to_visit[i] \notin visited' /\ to_visit[i] \in Within(Cardinality(hrefs) + 1)
                 /\ u \in Within(Cardinality(hrefs) + 1))
                => Distance(u) # Distance(to_visit[i]) + 1 ]_vars

\* The number of fetch_html calls made so far
RECURSIVE Calls(_, _)
Calls(f, S) ==
    IF S = {} THEN 0
    ELSE LET u == CHOOSE x \in S : TRUE IN f[u] + Calls(f, S \ {u})

\* A recipe page was requested
RecipeFetched == records # <<>> \/ \E f \in failedFetches : f[1] = "recipes"

\* C23: every fetch of a listing page precedes every fetch of a recipe page
\* (once a recipe page is requested the frontier and the list of listing
\* pages are empty and stay empty, and no listing page is requested again),
\* and a step makes at most one fetch_html call.
C23_ListingFetchesBeforeRecipeFetches ==
    /\ [](RecipeFetched => (to_visit = <<>> /\ listing_pages = <<>> /\ pc \notin {"start", "crawl", "links"}))
    /\ [][ /\ (pc = "recipes" /\ runFetches' # runFetches) =>
                (to_visit = <<>> /\ listing_pages = <<>> /\ crawlFetches' = crawlFetches)
           /\ Calls(runFetches', DOMAIN runFetches') <= Calls(runFetches, DOMAIN runFetches) + 1 ]_vars

\* A ketochef run fetched two listing pages in the crawl, fetched them again
\* for their recipe links, then fetched two recipe pages and wrote the records.
C23_Witness ==
    /\ prog = "kc" /\ pc = "done"
    /\ Cardinality(visited) = 2
    /\ Len(records) = 2
    /\ written = records

\* u is on the listing of omermiller: on the site, its path the listing root
\* or below the /page/ prefix of the listing root
OnListing(u) ==
    /\ u.netloc \in {"", BaseNetloc}
    /\ \E segs \in RootSegments("omermiller", CATEGORY_PATH) :
        \/ RStripSlash(u.path) = JoinPath(segs)
        \/ StartsWith(u.path, JoinPath(segs) \o <<"/">> \o wPage \o <<"/">>)

\* C29: every URL the omermiller crawl fetches, the seed apart, is on the
\* listing, whatever the links of the fetched pages.
C29_OmermillerCrawlStaysOnListing ==
    prog = "om" => \A u \in DOMAIN crawlFetches \ {start_url} : OnListing(u)

\* The elements that have no end tag
VoidTags == {"br", "img", "input"}

\* The elements open after the tokens given, innermost last, for a page whose
\* end tags close the innermost open element; an end tag with nothing open
\* closes nothing
RECURSIVE OpenElements(_)
OpenElements(tokens) ==
    IF tokens = <<>> THEN <<>>
    ELSE LET open == OpenElements(Front(tokens))
             token == Last(tokens)
         IN  IF token.type = "start" /\ token.tag \notin VoidTags THEN Append(open, token)
             ELSE IF token.type = "end" /\ open # <<>> THEN Front(open)
             ELSE open

\* The tokens of the page handled so far
Handled == SubSeq(html_text, 1, Len(html_text) - Len(rawdata))

\* The texts of the page that lie in a list item or a paragraph inside (or
\* being) an element with one of the class hints
HintedItemTexts(hints) ==
    LET inside(i) ==
            LET open == OpenElements(SubSeq(html_text, 1, i - 1))
            IN  \E j \in 1..Len(open), k \in 1..Len(open) :
                    /\ j <= k
                    /\ {lower(token) : token \in open[j].class} \cap hints # {}
                    /\ open[k].tag \in {"li", "p"}
    IN  { split_join(html_text[i].data) :
            i \in {n \in 1..Len(html_text) :
                     /\ html_text[n].type = "data"
                     /\ split_join(html_text[n].data) # <<>>
                     /\ inside(n)} }

\* C24: a class hint holds for the elements nested in the hinted element:
\* when the page is parsed, every text of a list item or paragraph inside an
\* element with an ingredients (instructions) class hint is in the
\* ingredients (instructions) list, whether a heading section is active or not.
C24_ClassHintInheritedByNestedElements ==
    rawdata = <<>> =>
        /\ HintedItemTexts(IngredientClasses) \subseteq Range(ingredients_raw)
        /\ HintedItemTexts(InstructionClasses) \subseteq Range(instructions_raw)

\* The texts of the script and style elements of the page
ScriptTexts ==
    { split_join(html_text[i].data) :
        i \in {n \in 2..Len(html_text) :
                 /\ html_text[n].type = "data"
                 /\ html_text[n - 1].type = "start"
                 /\ html_text[n - 1].tag \in {"script", "style"}} }

\* C25: no text of a script or style element is the title or is in the
\* ingredients or the instructions, wherever the element stands.
C25_ScriptAndStyleTextSkipped ==
    /\ title \notin ScriptTexts
    /\ Range(ingredients_raw) \cap ScriptTexts = {}
    /\ Range(instructions_raw) \cap ScriptTexts = {}

\* C28: at every point of the parse the section stack is as long as the
\* number of open elements, also after a void element.
C28_SectionStackMatchesOpenElements ==
    Len(_section_stack) = Len(OpenElements(Handled))

\* C26: in the record the entries found only in the structured block come
\* before the entries found only in the markup, for the ingredients and for
\* the instructions.
C26_StructuredEntriesFirst ==
    recipe.built =>
        LET StructuredFirst(structured, heuristic, carried) ==
                \A i, j \in 1..Len(carried) :
                    ( /\ carried[i] \in Range(structured) \ Range(heuristic)
                      /\ carried[j] \in Range(heuristic) \ Range(structured) )
                    => i < j
        IN  /\ StructuredFirst(StructuredIngredients(script_blocks),
                               HintedTexts(html_text, IngredientClasses),
                               recipe.ingredients)
            /\ StructuredFirst(StructuredInstructions(script_blocks),
                               HintedTexts(html_text, InstructionClasses),
                               recipe.instructions)

\* The URL with the trailing slash of its path taken off, or put on
SlashVariant(u) ==
    [u EXCEPT !.path = IF u.path # <<>> /\ Last(u.path) = "/" THEN Front(u.path)
                       ELSE Append(u.path, "/")]

\* C27: is_recipe_link and is_listing_page of the three scrapers give, for
\* every URL, with a pagination query or without, the results they give for
\* the same URL with the trailing slash of its path taken off or put on.
C27_TrailingSlashInvariant ==
    LET v == SlashVariant(url)
    IN  /\ cls.scraper = "omermiller" =>
            /\ cls.recipe = om_is_recipe_link(v, cls.category_path)
            /\ cls.listing = om_is_listing_page(v, cls.category_path)
        /\ cls.scraper = "ketochef" =>
            /\ cls.recipe = kc_is_recipe_link(v)
            /\ cls.listing = kc_is_listing_page(v)
        /\ cls.scraper = "keto-diet" =>
            /\ cls.recipe = kd_is_recipe_link(v)
            /\ cls.listing = kd_is_listing_page(v)

\* ketochef classified the listing root written with a trailing slash and a
\* page query: a listing page, as the root without the slash is.
C27_Witness ==
    /\ cls.scraper = "ketochef"
    /\ url = URL(BaseNetloc, <<"/">> \o wRecipes \o <<"/">>, qPage)
    /\ cls.listing /\ ~cls.recipe
    /\ kc_is_listing_page(URL(BaseNetloc, <<"/">> \o wRecipes, qPage))

=============================================================================
